---- MODULE Spec2Model ----
(***************************************************************************)
(* Model of the phml compilation engine.                                   *)
(*                                                                         *)
(*   SpecCond : process_conditions / execute_conditions of                 *)
(*              src/phml/core/compile.py run on one scope.                 *)
(*   SpecLoop : step_expand_loop_tags of src/phml/v2/steps/loops.py run on *)
(*              one scope, followed by the conditional step of the         *)
(*              pipeline (src/phml/compiler/__init__.py, __STEPS__).       *)
(*   SpecComp : replace_components, apply_conditions and apply_python of   *)
(*              src/phml/core/compile.py run on a tree with a registry of  *)
(*              components.                                                *)
(*   SpecPipe : HypertextMarkupCompiler.compile and _process_scope_ of     *)
(*              src/phml/compiler/__init__.py run on a tree, twice.        *)
(*   SpecCompile : Compiler.compile and Compiler.__html of                 *)
(*              src/phml/core/compile.py run on a tree of plain nodes.     *)
(*   SpecBind : the bindings that execute_conditions and apply_python of   *)
(*              src/phml/core/compile.py use to evaluate a name.           *)
(*   SpecCompFair : the passes of SpecComp on a small tree, with weak      *)
(*              fairness, for the termination of replace_components.       *)
(*   SpecRemove : Compiler.remove of src/phml/core/compile.py.             *)
(*   SpecGenerated : generated of src/phml/utils/validate/validate.py.     *)
(*   SpecScan : HypertextMarkupCompiler._get_python_elements of            *)
(*              src/phml/compiler/__init__.py.                             *)
(*   SpecManager : ComponentManager.validate and add of                    *)
(*              src/v2/components.py.                                      *)
(*                                                                         *)
(* Nodes are addressed by identity (a natural number); a child sequence is *)
(* a sequence of identities, so that "the same object" and "a clone" are   *)
(* different things in the model as they are in the program.               *)
(***************************************************************************)
EXTENDS Integers, Sequences, FiniteSets, TLC

\* Longest child sequence of the scope handed to process_conditions.
MaxChildren == 4
\* Largest number of iterations the evaluator reports for a loop.
MaxIter == 2
\* Longest child sequence of the scope handed to step_expand_loop_tags.
MaxScope == 3
\* Most <For> elements among the children of that scope.
MaxLoops == 2
\* Longest child sequence of the root handed to replace_components.
MaxSites == 3
\* Longest child sequence of the root when termination is checked.
MaxCalls == 1
\* Most substitutions followed in one call of replace_components.
MaxSubs == 7
\* Longest child sequence of the root of the tree handed to Compiler.compile.
MaxAst == 3
\* Largest line and column of a source position.
MaxLine == 3
\* Most components in the registry handed to Compiler.remove.
MaxNames == 3
\* Longest child sequence of the root handed to _get_python_elements.
MaxPython == 3
\* Most subtrees under the root handed to HypertextMarkupCompiler.compile.
MaxTop == 1
\* Largest number of iterations the evaluator reports for a loop of that tree.
MaxTurns == 1

(***************************************************************************)
(* Conditional resolution (src/phml/core/compile.py)                       *)
(***************************************************************************)
VARIABLES
    node,           \* identity -> [type, properties, position, clone_of]
    tree0,          \* tree.children when process_conditions was called
    node0,          \* the nodes when process_conditions was called
    tree_children,  \* the list object tree.children
    children,       \* the local `children` of execute_conditions
    aliased,        \* TRUE while `children` is the list object tree.children
    cond,           \* the list `conditions` built by process_conditions
    ci,             \* index in cond of the next (condition, child) pair
    previous,       \* the local `previous` of execute_conditions
    first_cond,     \* the local `first_cond` of execute_conditions
    evaluated,      \* calls made to the evaluator: <<child, outcome>>
    removed,        \* identities dropped from the child sequence so far
    pc,             \* "start", "exec", "done" or "error"
    err             \* which exception ended the run ("" when none)

condVars == <<node, tree0, node0, tree_children, children, aliased, cond, ci,
              previous, first_cond, evaluated, removed, pc, err>>

\* Loop expansion (src/phml/v2/steps/loops.py) on the scope `node`.
VARIABLES
    heap,           \* identity -> node of the tree; 1 is the scope `node`
    heap0,          \* the tree when the step was called
    for_loops,      \* the list `for_loops` of step_expand_loop_tags
    li,             \* index in for_loops of the next loop
    loop_log,       \* per loop tried: iterations found (-1: raised), had a parent
    last_exp,       \* the expansion done by the last turn, if any
    lpc,            \* "idle", "start", "loops", "conds", "done" or "error"
    lerr            \* the exception that ended the run ("" when none)

loopVars == <<heap, heap0, for_loops, li, loop_log, last_exp, lpc, lerr>>

\* Component substitution (src/phml/core/compile.py, replace_components).
VARIABLES
    ctree,          \* identity -> node; 1 is the root handed to replace_components
    ctree0,         \* the nodes when replace_components was called
    components,     \* the registry, in iteration order: <<name, value>> pairs
    ck,             \* index in components of the name being replaced
    subs,           \* the substitutions done: call site, name, new element
    cpc             \* "idle", "run", "done", "conditions" or "html"

compVars == <<ctree, ctree0, components, ck, subs, cpc>>

\* The scoped step pipeline (src/phml/compiler/__init__.py).
VARIABLES
    ptree,          \* identity -> node of the compiler's copy of the tree; 1 is the root
    pstack,         \* the calls of _process_scope_ in progress: node, next step, next child
    plog,           \* the steps run by the current compile call: node and step
    results,        \* the keys of self.results
    pstale,         \* the keys self.results held when the current call began
    pout,           \* the structure of the tree each compile call returned
    ppc             \* "idle", "ready", "scope", "returned" or "error"

pipeVars == <<ptree, pstack, plog, results, pstale, pout, ppc>>

\* Compiler.compile (src/phml/core/compile.py) on a tree.
VARIABLES
    ast,            \* the kinds of the children of ast.tree, the tree passed in
    ast0,           \* the same when compile was called
    html,           \* the kinds of the children of the tree that is rendered
    to_format,      \* the format asked for ("" before the call)
    kpc             \* "idle", "call", "html", "returned" or "raised"

compileVars == <<ast, ast0, html, to_format, kpc>>

\* The bindings of one name around an element, and an evaluation at it.
VARIABLES
    benv,           \* level -> whether the level binds the name
    bres            \* the evaluation made: its kind and the level whose value it used

bindVars == <<benv, bres>>

\* Compiler.add / Compiler.remove (src/phml/core/compile.py) on self.components.
VARIABLES
    registry,       \* self.components: <<name, value>> in insertion order
    registry0,      \* the same when remove was called
    removing,       \* the argument of remove: a name or a node
    rpc             \* "idle", "call", "returned", "KeyError" or "ValueError"

removeVars == <<registry, registry0, removing, rpc>>

\* generated (src/phml/utils/validate/validate.py) applied to a node.
VARIABLES
    gnode,          \* the node: its type, its position, whether it is a copy
    gres            \* <<>> before the call, <<result>> after it

generatedVars == <<gnode, gres>>

\* HypertextMarkupCompiler._get_python_elements (src/phml/compiler/__init__.py) on a tree.
VARIABLES
    scan_tree,      \* the children of the node: records [id, tag, kids], kids being [id, tag]
    scan_tree0,     \* the same when the function was called
    scan_result,    \* the list returned: identities of nodes
    scan_pc         \* "idle", "call" or "returned"

scanVars == <<scan_tree, scan_tree0, scan_result, scan_pc>>

\* ComponentManager (src/v2/components.py): the registry and a call of validate or add.
VARIABLES
    manager,        \* self.components: name -> record
    manager0,       \* the same when the call was made
    data,           \* the record passed in: what each of its entries holds
    mpc             \* "idle", "call", "returned", "ValueError" or "TypeError"

managerVars == <<manager, manager0, data, mpc>>

vars == <<condVars, loopVars, compVars, pipeVars, compileVars, bindVars, removeVars, generatedVars, scanVars, managerVars>>

\* What the actions of one part leave alone: the state of the other parts.
condOthers == <<loopVars, compVars, pipeVars, compileVars, bindVars, removeVars, generatedVars, scanVars, managerVars>>
loopOthers == <<condVars, compVars, pipeVars, compileVars, bindVars, removeVars, generatedVars, scanVars, managerVars>>
compOthers == <<condVars, loopVars, pipeVars, compileVars, bindVars, removeVars, generatedVars, scanVars, managerVars>>
pipeOthers == <<condVars, loopVars, compVars, compileVars, bindVars, removeVars, generatedVars, scanVars, managerVars>>
compileOthers == <<condVars, loopVars, compVars, pipeVars, bindVars, removeVars, generatedVars, scanVars, managerVars>>
bindOthers == <<condVars, loopVars, compVars, pipeVars, compileVars, removeVars, generatedVars, scanVars, managerVars>>
removeOthers == <<condVars, loopVars, compVars, pipeVars, compileVars, bindVars, generatedVars, scanVars, managerVars>>
generatedOthers == <<condVars, loopVars, compVars, pipeVars, compileVars, bindVars, removeVars, scanVars, managerVars>>
scanOthers == <<condVars, loopVars, compVars, pipeVars, compileVars, bindVars, removeVars, generatedVars, managerVars>>
managerOthers == <<condVars, loopVars, compVars, pipeVars, compileVars, bindVars, removeVars, generatedVars, scanVars>>

\* The directive attributes, in the order of the list in py_conditions.
ConditionNames == <<"py-for", "py-if", "py-elif", "py-else", "@if", "@elif", "@else", "@for">>

ConditionSet == {ConditionNames[i] : i \in 1..Len(ConditionNames)}

\* The branch of execute_conditions a directive attribute selects.
Kind(c) ==
    CASE c \in {"py-for", "@for"} -> "for"
      [] c \in {"py-if", "@if"} -> "if"
      [] c \in {"py-elif", "@elif"} -> "elif"
      [] c \in {"py-else", "@else"} -> "else"
      [] OTHER -> "unknown"

\* The table valid_prev of execute_conditions.
valid_prev(c) ==
    IF Kind(c) \in {"for", "if"}
    THEN ConditionSet
    ELSE {"py-if", "py-elif", "@if", "@elif"}

\* The outcomes of a call to the evaluator (get_vp_result): a truthy value,
\* a falsy value, or an exception.
Outcomes == {"T", "F", "X"}

Range(s) == {s[i] : i \in 1..Len(s)}

\* list.index: the place of the first occurrence.
IndexOf(s, x) == CHOOSE i \in 1..Len(s) : s[i] = x /\ \A j \in 1..(i - 1) : s[j] /= x

\* list.remove: the list without the first occurrence.
ListRemove(s, x) ==
    LET i == IndexOf(s, x)
    IN  SubSeq(s, 1, i - 1) \o SubSeq(s, i + 1, Len(s))

\* py_conditions of process_conditions: the directive attributes of a node.
py_conditions(n) == n.properties \cap ConditionSet

\* test(child, "element")
IsElement(n) == n.type = "element"

RECURSIVE Conditions(_, _)
\* The list `conditions` of process_conditions for a child sequence that
\* holds no element with more than one directive.
Conditions(s, nd) ==
    IF s = <<>> THEN <<>>
    ELSE LET c == Head(s)
             pcs == py_conditions(nd[c])
         IN  (IF IsElement(nd[c]) /\ Cardinality(pcs) = 1
              THEN << <<CHOOSE k \in pcs : TRUE, c>> >>
              ELSE <<>>) \o Conditions(Tail(s), nd)

HasMany_OffByOne(n) == IsElement(n) /\ Cardinality(py_conditions(n)) > 2

\* `len(py_conditions(child)) > 1`: an element with more than one directive.
HasMany(n) == IsElement(n) /\ Cardinality(py_conditions(n)) > 1

\* The property sets the initial nodes are drawn from: none, one directive in
\* either spelling (a loop in the py- spelling: execute_conditions takes the
\* same branch for both and records the loop as the same previous directive),
\* and two directives at once.
PropertyChoices ==
    {{}} \cup {{c} : c \in ConditionSet \ {"@for"}}
         \cup {{"py-for", "@elif"}}

NodeChoices ==
    {[type |-> "text", properties |-> {}, position |-> TRUE, clone_of |-> 0]}
    \cup {[type |-> "element", properties |-> p, position |-> TRUE, clone_of |-> 0] :
            p \in PropertyChoices}

\* The loop step is not running.
LoopIdle ==
    /\ heap = <<>>
    /\ heap0 = <<>>
    /\ for_loops = <<>>
    /\ li = 1
    /\ loop_log = <<>>
    /\ last_exp = <<>>
    /\ lpc = "idle"
    /\ lerr = ""

\* replace_components is not running.
CompIdle ==
    /\ ctree = <<>>
    /\ ctree0 = <<>>
    /\ components = <<>>
    /\ ck = 1
    /\ subs = <<>>
    /\ cpc = "idle"

\* The compiler is not running.
PipeIdle ==
    /\ ptree = <<>>
    /\ pstack = <<>>
    /\ plog = <<>>
    /\ results = {}
    /\ pstale = {}
    /\ pout = <<>>
    /\ ppc = "idle"

\* Compiler.compile is not running.
CompileIdle ==
    /\ ast = <<>>
    /\ ast0 = <<>>
    /\ html = <<>>
    /\ to_format = ""
    /\ kpc = "idle"

\* No evaluation is modelled.
BindIdle ==
    /\ benv = <<>>
    /\ bres = <<>>

\* Compiler.remove is not running.
RemoveIdle ==
    /\ registry = <<>>
    /\ registry0 = <<>>
    /\ removing = <<>>
    /\ rpc = "idle"

\* generated is not running.
GeneratedIdle ==
    /\ gnode = <<>>
    /\ gres = <<>>

\* _get_python_elements is not running.
ScanIdle ==
    /\ scan_tree = <<>>
    /\ scan_tree0 = <<>>
    /\ scan_result = <<>>
    /\ scan_pc = "idle"

\* No call of the ComponentManager is running.
ManagerIdle ==
    /\ manager = <<>>
    /\ manager0 = <<>>
    /\ data = <<>>
    /\ mpc = "idle"

InitCond ==
    /\ ManagerIdle
    /\ ScanIdle
    /\ GeneratedIdle
    /\ RemoveIdle
    /\ LoopIdle
    /\ CompIdle
    /\ PipeIdle
    /\ CompileIdle
    /\ BindIdle
    /\ \E n \in 0..MaxChildren :
          /\ node \in [1..n -> NodeChoices]
          /\ tree_children = [i \in 1..n |-> i]
    /\ tree0 = tree_children
    /\ node0 = node
    /\ children = <<>>
    /\ aliased = TRUE
    /\ cond = <<>>
    /\ ci = 1
    /\ previous = <<"@for", TRUE>>
    /\ first_cond = FALSE
    /\ evaluated = <<>>
    /\ removed = {}
    /\ pc = "start"
    /\ err = ""

\* process_conditions up to the call of execute_conditions: the scan that
\* raises on an element with more than one directive, and the first lines of
\* execute_conditions (first_cond, previous).
process_conditions ==
    /\ pc = "start"
    /\ IF \E i \in 1..Len(tree_children) : HasMany(node[tree_children[i]])
       THEN /\ pc' = "error"
            /\ err' = "multi"
            /\ UNCHANGED <<cond, children>>
       ELSE /\ cond' = Conditions(tree_children, node)
            /\ children' = tree_children
            /\ pc' = IF cond' = <<>> THEN "done" ELSE "exec"
            /\ err' = ""
    /\ ci' = 1
    /\ previous' = <<"@for", TRUE>>
    /\ first_cond' = FALSE
    /\ aliased' = TRUE
    /\ UNCHANGED <<node, tree0, node0, tree_children, evaluated, removed>>
    /\ UNCHANGED condOthers

\* The end of one turn of the loop of execute_conditions with the list nc as
\* `children`: the next pair, or the return and the assignment to
\* tree.children when the pairs are exhausted.  al tells whether nc is still
\* the list object tree.children.
Advance(nc, al) ==
    /\ children' = nc
    /\ aliased' = al
    /\ ci' = ci + 1
    /\ pc' = IF ci + 1 > Len(cond) THEN "done" ELSE "exec"
    /\ tree_children' = IF al \/ ci + 1 > Len(cond) THEN nc ELSE tree_children
    /\ err' = ""

\* An exception leaves execute_conditions: tree.children is not assigned.
Raise(e) ==
    /\ pc' = "error"
    /\ err' = e
    /\ UNCHANGED <<children, aliased, ci, tree_children>>

Condition == cond[ci][1]
Child == cond[ci][2]

DelProperty_Kept(nd, c, name) == nd

\* del child.properties[condition]
DelProperty(nd, c, name) ==
    [nd EXCEPT ![c].properties = @ \ {name}]

ChainOpen_AnyTime(c, prev, fc) == prev[1] \in valid_prev(c)

\* `previous[0] in valid_prev[condition] and first_cond`
ChainOpen(c, prev, fc) == prev[1] \in valid_prev(c) /\ fc

ElifRuns_Always(prev) == TRUE

\* `if not previous[1]` of the elif branch: the condition is evaluated.
ElifRuns(prev) == ~prev[2]

ElseKept_Always(prev) == TRUE

\* `if not previous[1]` of the else branch: the element is kept.
ElseKept(prev) == ~prev[2]

\* Fresh identities for n deep copies.
FreshIds(nd, n) ==
    LET top == Cardinality(DOMAIN nd)
    IN  [k \in 1..n |-> top + k]

\* The branch for py-for / @for: the element is replaced, at its own index,
\* by one deep copy of itself per iteration; the directive is deleted and the
\* position cleared before the loop source runs.
ExecFor ==
    /\ pc = "exec"
    /\ Kind(Condition) = "for"
    /\ LET insert == IndexOf(children, Child)
           stripped == [DelProperty(node, Child, Condition) EXCEPT ![Child].position = FALSE]
       IN  \/ \E n \in 0..MaxIter :
                LET ids == FreshIds(node, n)
                    copies == [k \in Range(ids) |-> [stripped[Child] EXCEPT !.clone_of = Child]]
                IN  /\ node' = stripped @@ copies
                    /\ Advance(SubSeq(children, 1, insert - 1) \o ids
                                 \o SubSeq(children, insert + 1, Len(children)), FALSE)
                    /\ removed' = removed \cup {Child}
                    /\ previous' = <<"@for", FALSE>>
                    /\ first_cond' = FALSE
                    /\ UNCHANGED evaluated
           \/ /\ node' = stripped
              /\ Raise("eval")
              /\ UNCHANGED <<previous, first_cond, evaluated, removed>>
    /\ UNCHANGED <<tree0, node0, cond>>
    /\ UNCHANGED condOthers

\* The branch for py-if / @if.
ExecIf ==
    /\ pc = "exec"
    /\ Kind(Condition) = "if"
    /\ \E result \in Outcomes :
          /\ evaluated' = Append(evaluated, <<Child, result>>)
          /\ CASE result = "T" ->
                    /\ node' = DelProperty(node, Child, Condition)
                    /\ previous' = <<"@if", TRUE>>
                    /\ first_cond' = TRUE
                    /\ Advance(children, aliased)
                    /\ UNCHANGED removed
               [] result = "F" ->
                    /\ previous' = <<"@if", FALSE>>
                    /\ first_cond' = TRUE
                    /\ Advance(ListRemove(children, Child), aliased)
                    /\ removed' = removed \cup {Child}
                    /\ UNCHANGED node
               [] OTHER ->
                    /\ Raise("eval")
                    /\ UNCHANGED <<node, previous, first_cond, removed>>
    /\ UNCHANGED <<tree0, node0, cond>>
    /\ UNCHANGED condOthers

\* The branch for py-elif / @elif.
ExecElif ==
    /\ pc = "exec"
    /\ Kind(Condition) = "elif"
    /\ IF ChainOpen(Condition, previous, first_cond)
       THEN IF ElifRuns(previous)
            THEN \E result \in Outcomes :
                    /\ evaluated' = Append(evaluated, <<Child, result>>)
                    /\ CASE result = "T" ->
                              /\ node' = DelProperty(node, Child, Condition)
                              /\ previous' = <<"@elif", TRUE>>
                              /\ Advance(children, aliased)
                              /\ UNCHANGED removed
                         [] result = "F" ->
                              /\ previous' = <<"@elif", FALSE>>
                              /\ Advance(ListRemove(children, Child), aliased)
                              /\ removed' = removed \cup {Child}
                              /\ UNCHANGED node
                         [] OTHER ->
                              /\ Raise("eval")
                              /\ UNCHANGED <<node, previous, removed>>
            ELSE /\ Advance(ListRemove(children, Child), aliased)
                 /\ removed' = removed \cup {Child}
                 /\ UNCHANGED <<node, previous, evaluated>>
       ELSE /\ Raise("order")
            /\ UNCHANGED <<node, previous, evaluated, removed>>
    /\ UNCHANGED <<tree0, node0, cond, first_cond>>
    /\ UNCHANGED condOthers

\* The branch for py-else / @else.
ExecElse ==
    /\ pc = "exec"
    /\ Kind(Condition) = "else"
    /\ IF ChainOpen(Condition, previous, first_cond)
       THEN /\ IF ElseKept(previous)
               THEN /\ node' = DelProperty(node, Child, Condition)
                    /\ previous' = <<"@else", TRUE>>
                    /\ Advance(children, aliased)
                    /\ UNCHANGED removed
               ELSE /\ Advance(ListRemove(children, Child), aliased)
                    /\ removed' = removed \cup {Child}
                    /\ UNCHANGED <<node, previous>>
            /\ first_cond' = FALSE
       ELSE /\ Raise("order")
            /\ UNCHANGED <<node, previous, first_cond, removed>>
    /\ UNCHANGED <<tree0, node0, cond, evaluated>>
    /\ UNCHANGED condOthers

NextCond == process_conditions \/ ExecFor \/ ExecIf \/ ExecElif \/ ExecElse

SpecCond == InitCond /\ [][NextCond]_vars

(***************************************************************************)
(* Properties of conditional resolution                                    *)
(***************************************************************************)
\* The directive attributes a child carried when process_conditions was called.
Directives0(c) == node0[c].properties \cap ConditionSet

\* The children of the scope, in order, that are elements with one directive.
Dirs0 == SelectSeq(tree0, LAMBDA c : node0[c].type = "element" /\ Cardinality(Directives0(c)) = 1)

\* The kind of directive of the i-th such child.
Kind0(i) == Kind(CHOOSE k \in Directives0(Dirs0[i]) : TRUE)

\* The places in Dirs0 of the chain if, elif*, else? that starts at place i.
ChainOf(i) ==
    {k \in i..Len(Dirs0) :
        /\ \A m \in (i + 1)..(k - 1) : Kind0(m) = "elif"
        /\ k > i => Kind0(k) \in {"elif", "else"}}

Chains == {i \in 1..Len(Dirs0) : Kind0(i) = "if"}

EvaluatedAs(c, r) == \E e \in 1..Len(evaluated) : evaluated[e] = <<c, r>>

WasEvaluated(c) == \E e \in 1..Len(evaluated) : evaluated[e][1] = c

\* C1: conditional exclusivity. When the resolution of a scope has completed,
\* of every chain if, elif*, else? exactly one member is left among the
\* parent's children, or none when every condition of the chain was false and
\* the chain has no else.
C1_ConditionalExclusivity ==
    pc = "done" =>
        \A i \in Chains :
            LET members == {Dirs0[k] : k \in ChainOf(i)}
                kept == members \cap Range(tree_children)
                anyTrue == \E m \in members : EvaluatedAs(m, "T")
                hasElse == \E k \in ChainOf(i) : Kind0(k) = "else"
            IN  Cardinality(kept) = (IF anyTrue \/ hasElse THEN 1 ELSE 0)

\* A chain of three members, if and elif false, resolved to its else alone.
C1_Witness ==
    /\ pc = "done"
    /\ \E i \in Chains :
          /\ Cardinality(ChainOf(i)) = 3
          /\ EvaluatedAs(Dirs0[i], "F")
          /\ EvaluatedAs(Dirs0[i + 1], "F")
          /\ Kind0(i + 2) = "else"
          /\ {Dirs0[k] : k \in ChainOf(i)} \cap Range(tree_children) = {Dirs0[i + 2]}

\* A child at place p of the scope that carries elif while the sibling
\* immediately before it (whatever its kind) does not carry if or elif.
ElifNotAfterIfOrElif(p) ==
    /\ node0[tree0[p]].type = "element"
    /\ Cardinality(Directives0(tree0[p])) = 1
    /\ Kind(CHOOSE k \in Directives0(tree0[p]) : TRUE) = "elif"
    /\ \/ p = 1
       \/ node0[tree0[p - 1]].type /= "element"
       \/ Cardinality(Directives0(tree0[p - 1])) /= 1
       \/ Kind(CHOOSE k \in Directives0(tree0[p - 1]) : TRUE) \notin {"if", "elif"}

\* C2: chain-order error. A scope that holds an elif whose immediately
\* preceding sibling, of any node kind, does not carry if or elif is never
\* resolved without an error.
C2_ChainOrderError ==
    (\E p \in 1..Len(tree0) : ElifNotAfterIfOrElif(p)) => pc /= "done"

\* The i-th directive has no valid predecessor: it is an elif or else that is
\* the first directive of the scope or follows an else or a loop.
Orphan(i) ==
    /\ Kind0(i) \in {"elif", "else"}
    /\ i = 1 \/ Kind0(i - 1) \in {"else", "for"}

NoneHasMany0 == \A p \in 1..Len(tree0) : Cardinality(Directives0(tree0[p])) <= 1

C25_OrphanRenderedAsNormal ==
    \A i \in 1..Len(Dirs0) :
        (Orphan(i) /\ NoneHasMany0) =>
            /\ ~(pc = "error" /\ ci = i)
            /\ pc = "done" =>
                  /\ Dirs0[i] \in Range(tree_children)
                  /\ node[Dirs0[i]].properties \cap ConditionSet = {}

\* C4: first-true-wins. Once a member of a chain has evaluated true, no later
\* member of the chain is passed to the evaluator and, once the loop has gone
\* past it, every later member is gone from the child sequence; an elif all of
\* whose predecessors were false is evaluated; an else is never evaluated and
\* is kept, with its directive stripped, when no member was true.
C4_FirstTrueWins ==
    (pc /= "start" /\ NoneHasMany0) =>
        \A i \in Chains :
            \A k \in ChainOf(i) \ {i} :
                LET c == Dirs0[k]
                    earlierTrue == \E m \in ChainOf(i) : m < k /\ EvaluatedAs(Dirs0[m], "T")
                    passed == ci > k
                IN  /\ earlierTrue => ~WasEvaluated(c)
                    /\ (earlierTrue /\ passed) => c \notin Range(children)
                    /\ (Kind0(k) = "elif" /\ passed /\ ~earlierTrue) => WasEvaluated(c)
                    /\ Kind0(k) = "else" => ~WasEvaluated(c)
                    /\ (Kind0(k) = "else" /\ passed /\ ~earlierTrue) =>
                            /\ c \in Range(children)
                            /\ Directives0(c) \cap node[c].properties = {}

\* The if of a chain was true, and the loop has gone past two later members.
C4_Witness ==
    /\ pc = "done"
    /\ \E i \in Chains :
          /\ EvaluatedAs(Dirs0[i], "T")
          /\ Cardinality(ChainOf(i)) >= 3
          /\ Len(evaluated) = 1

\* C5: an element with more than one directive attribute makes
\* process_conditions raise before any condition of the scope is evaluated and
\* before any child is removed or cloned: the child sequence and the nodes are
\* as they were.
C5_ManyDirectivesRaiseFirst ==
    ((\E p \in 1..Len(tree0) : Cardinality(Directives0(tree0[p])) > 1) /\ pc /= "start") =>
        /\ pc = "error"
        /\ err = "multi"
        /\ evaluated = <<>>
        /\ removed = {}
        /\ tree_children = tree0
        /\ node = node0

\* The error was raised for a scope whose first child is a true-able if and
\* whose last child carries two directives.
C5_Witness ==
    /\ pc = "error"
    /\ err = "multi"
    /\ Len(tree0) >= 2
    /\ Directives0(tree0[1]) = {"@if"}
    /\ Cardinality(Directives0(tree0[Len(tree0)])) > 1

\* The children that carried no directive (text nodes and plain elements).
Plain0(c) == c \in DOMAIN node0 /\ Directives0(c) = {}

\* C6: after conditional resolution completes without error no surviving child
\* carries if, elif or else, every removed node is absent from the child
\* sequence, and the children that carried no directive are all present,
\* unchanged and in their original relative order.
C6_ResolutionFrame ==
    pc = "done" =>
        /\ \A c \in Range(tree_children) :
              \A k \in node[c].properties : Kind(k) \notin {"if", "elif", "else"}
        /\ removed \cap Range(tree_children) = {}
        /\ \A c \in Range(tree0) : c \in removed \/ c \in Range(tree_children)
        /\ SelectSeq(tree_children, Plain0) = SelectSeq(tree0, Plain0)
        /\ \A c \in Range(tree0) : Plain0(c) => node[c] = node0[c]

\* A resolved scope in which a plain child sits between a removed if and a
\* kept elif.
C6_Witness ==
    /\ pc = "done"
    /\ Len(tree0) >= 3
    /\ Plain0(tree0[2])
    /\ tree0[1] \in removed
    /\ EvaluatedAs(tree0[3], "T")
    /\ tree0[3] \in Range(tree_children)

(***************************************************************************)
(* Loop expansion (src/phml/v2/steps/loops.py)                             *)
(***************************************************************************)
\* A node of the tree.  parent and clone_of are identities, 0 for None / not
\* a clone; position is FALSE once _position is None; iteration records the
\* turn of the loop in which a clone was made (0 for a parsed node).  A
\* Literal has no attributes and no context: both stay empty.
MkNode(type, tag, attrs, kids, parent) ==
    [type |-> type, tag |-> tag, attributes |-> attrs, context |-> <<>>,
     children |-> kids, parent |-> parent, position |-> TRUE, clone_of |-> 0,
     iteration |-> 0]

\* The values of an `each` / `:each` attribute: one that the pattern
\* `(?:for\s*)?(?P<captures>.+) in (?P<source>.+):?` matches, and one that it
\* does not match.
EachMatching == "k, v in src"
EachMalformed == "src"

\* re.match(...) is not None
parsed_loop(value) == value = EachMatching

\* re.findall(r"([^\s,]+)", parsed_loop["captures"])
captures(value) == IF value = EachMatching THEN {"k", "v"} ELSE {}

\* The children of a scope are drawn from these shapes: a literal, an element
\* with at most one conditional directive, a <For> with a matching :each and
\* one child (with or without an @elif/@else of its own) or two children, and
\* a <For> whose specification is spelled `each`, is malformed or is missing.
LoopShapes ==
    {[kind |-> "literal", cond |-> "", each |-> "", value |-> "", kids |-> <<>>]}
    \cup {[kind |-> "element", cond |-> c, each |-> "", value |-> "", kids |-> <<>>] :
            c \in {"", "@if", "@elif", "@else"}}
    \cup {[kind |-> "For", cond |-> c, each |-> ":each", value |-> EachMatching, kids |-> <<"element">>] :
            c \in {"", "@elif", "@else"}}
    \cup {[kind |-> "For", cond |-> "", each |-> ":each", value |-> EachMatching, kids |-> <<"literal", "element">>]}
    \cup {[kind |-> "For", cond |-> "", each |-> "each", value |-> EachMatching, kids |-> <<"element">>],
          [kind |-> "For", cond |-> "", each |-> ":each", value |-> EachMalformed, kids |-> <<"element">>],
          [kind |-> "For", cond |-> "", each |-> "", value |-> "", kids |-> <<"element">>]}

RECURSIVE KidsBefore(_, _)
\* The number of loop children of the first i shapes.
KidsBefore(shape, i) ==
    IF i = 0 THEN 0 ELSE KidsBefore(shape, i - 1) + Len(shape[i].kids)

ShapeAttributes(sh) ==
    (IF sh.cond = "" THEN <<>> ELSE (sh.cond :> (IF sh.cond = "@else" THEN "" ELSE "c")))
    @@ (IF sh.each = "" THEN <<>> ELSE (sh.each :> sh.value))

\* The tree for a sequence of shapes: 1 is the scope, 1 + i its i-th child,
\* and the children of the loops follow.
BuildHeap(shape) ==
    LET n == Len(shape)
        base(i) == 1 + n + KidsBefore(shape, i - 1)
        total == 1 + n + KidsBefore(shape, n)
    IN  [id \in 1..total |->
            IF id = 1 THEN MkNode("root", "", <<>>, [i \in 1..n |-> 1 + i], 0)
            ELSE IF id <= 1 + n
            THEN LET sh == shape[id - 1]
                 IN  MkNode(IF sh.kind = "literal" THEN "literal" ELSE "element",
                            IF sh.kind = "For" THEN "For" ELSE IF sh.kind = "element" THEN "p" ELSE "",
                            ShapeAttributes(sh),
                            [j \in 1..Len(sh.kids) |-> base(id - 1) + j],
                            1)
            ELSE LET i == CHOOSE i \in 1..n : base(i) < id /\ id <= base(i) + Len(shape[i].kids)
                     kind == shape[i].kids[id - base(i)]
                 IN  MkNode(kind, IF kind = "element" THEN "li" ELSE "", <<>>, <<>>, 1 + i)]

\* The conditional resolver is not running.
CondIdle ==
    /\ node = <<>>
    /\ tree0 = <<>>
    /\ node0 = <<>>
    /\ tree_children = <<>>
    /\ children = <<>>
    /\ aliased = TRUE
    /\ cond = <<>>
    /\ ci = 1
    /\ previous = <<"@for", TRUE>>
    /\ first_cond = FALSE
    /\ evaluated = <<>>
    /\ removed = {}
    /\ pc = "idle"
    /\ err = ""

InitLoop ==
    /\ ManagerIdle
    /\ ScanIdle
    /\ GeneratedIdle
    /\ RemoveIdle
    /\ CondIdle
    /\ CompIdle
    /\ PipeIdle
    /\ CompileIdle
    /\ BindIdle
    /\ \E n \in 0..MaxScope :
          \E shape \in [1..n -> LoopShapes] :
             /\ Cardinality({i \in 1..n : shape[i].kind = "For"}) <= MaxLoops
             /\ heap = BuildHeap(shape)
    /\ heap0 = heap
    /\ for_loops = <<>>
    /\ li = 1
    /\ loop_log = <<>>
    /\ last_exp = <<>>
    /\ lpc = "start"
    /\ lerr = ""

\* isinstance(child, Element)
IsV2Element(n) == n.type = "element"

\* Element.__contains__: the element has the attribute.
HasAttribute(n, a) == a \in DOMAIN n.attributes

\* loop.get(":each", loop.get("each", ""))
GetEach(n) ==
    IF HasAttribute(n, ":each") THEN n.attributes[":each"]
    ELSE IF HasAttribute(n, "each") THEN n.attributes["each"]
    ELSE ""

\* Parent.remove: the node leaves the child sequence and loses its parent.
ParentRemove(h, p, n) ==
    [h EXCEPT ![p].children = ListRemove(@, n), ![n].parent = 0]

\* Parent.insert(index, nodes): the nodes enter the child sequence before the
\* 1-based place idx, each with the parent as its parent.
ParentInsert(h, p, idx, ids) ==
    [id \in DOMAIN h |->
        IF id = p
        THEN [h[p] EXCEPT !.children = SubSeq(@, 1, idx - 1) \o ids \o SubSeq(@, idx, Len(@))]
        ELSE IF id \in Range(ids) THEN [h[id] EXCEPT !.parent = p]
        ELSE h[id]]

RECURSIVE FallbackRun(_, _, _)
\* The loop of _get_fallbacks from place i on: elements carrying @elif, ended
\* by one element carrying @else or by the first node that is neither.
FallbackRun(h, sibs, i) ==
    IF i > Len(sibs) THEN <<>>
    ELSE IF IsV2Element(h[sibs[i]])
    THEN IF HasAttribute(h[sibs[i]], "@elif") THEN <<sibs[i]>> \o FallbackRun(h, sibs, i + 1)
         ELSE IF HasAttribute(h[sibs[i]], "@else") THEN <<sibs[i]>>
         ELSE <<>>
    ELSE <<>>

get_fallbacks(h, n) ==
    IF h[n].parent = 0 THEN <<>>
    ELSE LET sibs == h[h[n].parent].children
         IN  FallbackRun(h, sibs, IndexOf(sibs, n) + 1)

update_fallbacks(h, n, exc) ==
    LET fallbacks == Range(get_fallbacks(h, n))
    IN  [id \in DOMAIN h |->
            IF id \in fallbacks
            THEN [h[id] EXCEPT !.context = ("_loop_fail_" :> exc) @@ @]
            ELSE h[id]]

RECURSIVE RemoveAll(_, _)
RemoveAll(h, fallbacks) ==
    IF fallbacks = <<>> THEN h
    ELSE LET f == Head(fallbacks)
         IN  RemoveAll(IF h[f].parent /= 0 THEN ParentRemove(h, h[f].parent, f) ELSE h,
                       Tail(fallbacks))

remove_fallbacks(h, n) == RemoveAll(h, get_fallbacks(h, n))

default_attributes_True(attrs) ==
    ("@if" :> "True") @@ [a \in DOMAIN attrs \ {"@elif", "@else"} |-> attrs[a]]

\* The attribute changes of replace_default: @elif and @else are popped and
\* @if is set to "False".
default_attributes(attrs) ==
    ("@if" :> "False") @@ [a \in DOMAIN attrs \ {"@elif", "@else"} |-> attrs[a]]

replace_default(h, n, exc) ==
    IF h[n].parent /= 0
    THEN update_fallbacks([h EXCEPT ![n].attributes = default_attributes(@)], n, exc)
    ELSE h

clone_context_Kept(kid, ctx) == kid.context

\* `if isinstance(child, Element): child.context.update(context)`
clone_context(kid, ctx) ==
    IF IsV2Element(kid) THEN ctx @@ kid.context ELSE kid.context

\* gen_new_children for turn `it` of a loop over `kids`: a deep copy of each
\* child, with the captures in its context when it is an element, no parent
\* and no position.
gen_new_children(h, kids, caps, it) ==
    [j \in 1..Len(kids) |->
        [h[kids[j]] EXCEPT !.context = clone_context(h[kids[j]], [c \in caps |-> <<c, it>>]),
                           !.parent = 0,
                           !.position = FALSE,
                           !.clone_of = kids[j],
                           !.iteration = it]]

Loop == for_loops[li]

\* The end of one turn of `for loop in for_loops`.
NextLoop ==
    /\ li' = li + 1
    /\ lpc' = IF li + 1 > Len(for_loops) THEN "conds" ELSE "loops"
    /\ lerr' = ""

\* The head of step_expand_loop_tags: the list for_loops.
step_expand_loop_tags ==
    /\ lpc = "start"
    /\ for_loops' = SelectSeq(heap[1].children,
                              LAMBDA c : IsV2Element(heap[c]) /\ heap[c].tag = "For")
    /\ li' = 1
    /\ lpc' = IF for_loops' = <<>> THEN "conds" ELSE "loops"
    /\ UNCHANGED <<heap, heap0, loop_log, last_exp, lerr>>
    /\ UNCHANGED loopOthers

\* `if parsed_loop is None: raise ValueError(...)`, outside the try.
LoopValueError ==
    /\ lpc = "loops"
    /\ ~parsed_loop(GetEach(heap[Loop]))
    /\ lpc' = "error"
    /\ lerr' = "ValueError"
    /\ last_exp' = <<>>
    /\ UNCHANGED <<heap, heap0, for_loops, li, loop_log>>
    /\ UNCHANGED loopOthers

\* `elif "each" in loop: _each = f':each="{loop[":each"]}"'`, outside the try:
\* the lookup of the attribute the element does not have.
LoopKeyError ==
    /\ lpc = "loops"
    /\ parsed_loop(GetEach(heap[Loop]))
    /\ ~HasAttribute(heap[Loop], ":each")
    /\ HasAttribute(heap[Loop], "each")
    /\ lpc' = "error"
    /\ lerr' = "KeyError"
    /\ last_exp' = <<>>
    /\ UNCHANGED <<heap, heap0, for_loops, li, loop_log>>
    /\ UNCHANGED loopOthers

\* The try block found iterations >= 1: the fallbacks are removed and the
\* loop is replaced by the new nodes (when the loop still has a parent).
LoopExpand ==
    /\ lpc = "loops"
    /\ parsed_loop(GetEach(heap[Loop]))
    /\ HasAttribute(heap[Loop], ":each")
    /\ \E n \in 1..MaxIter :
          LET kids == heap[Loop].children
              k == Len(kids)
              top == Cardinality(DOMAIN heap)
              ids == [m \in 1..(n * k) |-> top + m]
              made == [id \in (top + 1)..(top + n * k) |->
                          gen_new_children(heap, kids, captures(GetEach(heap[Loop])),
                                           ((id - top - 1) \div k) + 1)[((id - top - 1) % k) + 1]]
              parent == heap[Loop].parent
              h1 == remove_fallbacks(heap, Loop)
              idx == IndexOf(h1[parent].children, Loop)
              h2 == ParentRemove(h1, parent, Loop)
          IN  /\ loop_log' = Append(loop_log, [loop |-> Loop, n |-> n, attached |-> heap[Loop].parent /= 0])
              /\ IF parent /= 0
                 THEN /\ heap' = ParentInsert(h2 @@ made, parent, idx, ids)
                      /\ last_exp' = [loop |-> Loop, n |-> n, before |-> heap[parent].children]
                 ELSE /\ heap' = heap
                      /\ last_exp' = <<>>
    /\ NextLoop
    /\ UNCHANGED <<heap0, for_loops>>
    /\ UNCHANGED loopOthers

\* The try block found no iteration, or raised: replace_default.
LoopFallback ==
    /\ lpc = "loops"
    /\ parsed_loop(GetEach(heap[Loop]))
    /\ HasAttribute(heap[Loop], ":each")
    /\ \E n \in {0, -1} :
          /\ loop_log' = Append(loop_log, [loop |-> Loop, n |-> n, attached |-> heap[Loop].parent /= 0])
          /\ heap' = replace_default(heap, Loop,
                                     IF n = 0 THEN <<"No iterations occured", 0>>
                                     ELSE <<"exception", 0>>)
    /\ last_exp' = <<>>
    /\ NextLoop
    /\ UNCHANGED <<heap0, for_loops>>
    /\ UNCHANGED loopOthers

\* The conditional directives of the pipeline's conditional step.
V2Directives == {"@if", "@elif", "@else"}

DirectivesOf(n) == IF IsV2Element(n) THEN DOMAIN n.attributes \cap V2Directives ELSE {}

RECURSIVE Resolve(_, _, _, _)
\* The conditional chain resolver over a child sequence.  st is "none" (no
\* chain is open), "pending" (a chain is open and no member was true) or
\* "satisfied" (a chain is open and a member was true); out gives the
\* evaluator's answer for each condition.  The result names the children
\* kept, those whose directive is stripped, and whether the chain order was
\* legal.
Resolve(h, sibs, st, out) ==
    IF sibs = <<>> THEN [kept |-> <<>>, stripped |-> {}, ok |-> TRUE]
    ELSE LET c == Head(sibs)
             d == DirectivesOf(h[c])
             Keep(rest) == [rest EXCEPT !.kept = <<c>> \o @]
             Strip(rest) == [rest EXCEPT !.kept = <<c>> \o @, !.stripped = @ \cup {c}]
             Fail == [kept |-> <<>>, stripped |-> {}, ok |-> FALSE]
             Eval(a) == IF h[c].attributes[a] = "False" THEN "F" ELSE out[c]
         IN  CASE d = {} -> Keep(Resolve(h, Tail(sibs), "none", out))
               [] d = {"@if"} ->
                    IF Eval("@if") = "T"
                    THEN Strip(Resolve(h, Tail(sibs), "satisfied", out))
                    ELSE Resolve(h, Tail(sibs), "pending", out)
               [] d = {"@elif"} ->
                    IF st = "none" THEN Fail
                    ELSE IF st = "satisfied" THEN Resolve(h, Tail(sibs), "satisfied", out)
                    ELSE IF Eval("@elif") = "T"
                    THEN Strip(Resolve(h, Tail(sibs), "satisfied", out))
                    ELSE Resolve(h, Tail(sibs), "pending", out)
               [] d = {"@else"} ->
                    IF st = "none" THEN Fail
                    ELSE IF st = "satisfied" THEN Resolve(h, Tail(sibs), "none", out)
                    ELSE Strip(Resolve(h, Tail(sibs), "none", out))
               [] OTHER -> Fail

\* The conditional step of the pipeline on the scope, after the loop step.
step_execute_conditions ==
    /\ lpc = "conds"
    /\ \E out \in [{c \in Range(heap[1].children) :
                        DirectivesOf(heap[c]) \cap {"@if", "@elif"} /= {}} -> {"T", "F"}] :
          LET r == Resolve(heap, heap[1].children, "none", out)
          IN  IF r.ok
              THEN /\ heap' = [id \in DOMAIN heap |->
                                 IF id = 1 THEN [heap[1] EXCEPT !.children = r.kept]
                                 ELSE IF id \in r.stripped
                                 THEN [heap[id] EXCEPT !.attributes =
                                          [a \in DOMAIN @ \ V2Directives |-> @[a]]]
                                 ELSE IF id \in Range(heap[1].children) \ Range(r.kept)
                                 THEN [heap[id] EXCEPT !.parent = 0]
                                 ELSE heap[id]]
                   /\ lpc' = "done"
                   /\ lerr' = ""
              ELSE /\ heap' = heap
                   /\ lpc' = "error"
                   /\ lerr' = "StructuralError"
    /\ last_exp' = <<>>
    /\ UNCHANGED <<heap0, for_loops, li, loop_log>>
    /\ UNCHANGED loopOthers

NextLoopStep ==
    \/ step_expand_loop_tags
    \/ LoopValueError
    \/ LoopKeyError
    \/ LoopExpand
    \/ LoopFallback
    \/ step_execute_conditions

SpecLoop == InitLoop /\ [][NextLoopStep]_vars

(***************************************************************************)
(* Properties of loop expansion                                            *)
(***************************************************************************)
\* The children of the scope when the loop step was called.
Scope0 == heap0[1].children

\* The children of the scope now.
ScopeNow == heap[1].children

\* What C7 says of the expansion done by the last turn; literalsToo tells
\* whether the clones of literals must carry the captures as well.
LoopOrderingFor(literalsToo) ==
    last_exp /= <<>> =>
        LET L == last_exp.loop
            n == last_exp.n
            before == last_exp.before
            kids == heap[L].children
            k == Len(kids)
            at == IndexOf(before, L)
            caps == captures(GetEach(heap[L]))
        IN  /\ L \notin Range(ScopeNow)
            /\ Len(ScopeNow) >= at - 1 + n * k
            /\ SubSeq(ScopeNow, 1, at - 1) = SubSeq(before, 1, at - 1)
            /\ \A it \in 1..n : \A j \in 1..k :
                  LET c == ScopeNow[at - 1 + (it - 1) * k + j]
                  IN  /\ c \notin DOMAIN heap0
                      /\ heap[c].clone_of = kids[j]
                      /\ heap[c].type = heap[kids[j]].type
                      /\ heap[c].position = FALSE
                      /\ heap[c].parent = heap0[L].parent
                      /\ (literalsToo \/ IsV2Element(heap[c])) =>
                            \A name \in caps :
                                /\ name \in DOMAIN heap[c].context
                                /\ heap[c].context[name] = <<name, it>>
            /\ SubSeq(ScopeNow, at + n * k, Len(ScopeNow))
                  = SelectSeq(SubSeq(before, at + 1, Len(before)),
                              LAMBDA x : x \in Range(ScopeNow))

\* C7 as stated: loop ordering. When a turn of step_expand_loop_tags has
\* expanded a loop of n >= 1 iterations and k children, the loop is replaced
\* at its own index by n*k clones, grouped by iteration in iteration order and
\* in the children's order inside an iteration; each clone's context binds
\* every capture name to its iteration's value, each clone's position is
\* cleared, and the siblings before and after the loop keep their order.
C7_LoopOrdering_AsStated == LoopOrderingFor(TRUE)

\* The same for the clones that are elements: the captures are bound in the
\* context of each clone that is an element.
C7_LoopOrdering == LoopOrderingFor(FALSE)

\* A loop of two iterations over two children, a literal and an element, has
\* just been expanded between two siblings.
C7_Witness ==
    /\ last_exp /= <<>>
    /\ last_exp.n = 2
    /\ Len(heap[last_exp.loop].children) = 2
    /\ IndexOf(last_exp.before, last_exp.loop) = 2
    /\ Len(ScopeNow) = 6
    /\ heap[ScopeNow[3]].context = [k |-> <<"k", 1>>, v |-> <<"v", 1>>]
    /\ heap[ScopeNow[5]].context = [k |-> <<"k", 2>>, v |-> <<"v", 2>>]

RECURSIVE AccumulatedBindings(_, _)
\* The bindings an evaluation at node c uses: the contexts of the elements
\* from the root down to c, a nearer one overriding a farther one.
AccumulatedBindings(h, c) ==
    IF c = 0 THEN <<>>
    ELSE (IF IsV2Element(h[c]) THEN h[c].context ELSE <<>>)
            @@ AccumulatedBindings(h, h[c].parent)

\* C19: scoping. When a loop has just been expanded, the bindings used to
\* evaluate each clone that replaced it, a text clone included, hold every
\* capture name with the value of the clone's iteration, and the bindings
\* used for a sibling that no loop made hold none of them.
C19_Scoping ==
    last_exp /= <<>> =>
        LET L == last_exp.loop
            caps == captures(GetEach(heap[L]))
        IN  \A p \in 1..Len(ScopeNow) :
                LET c == ScopeNow[p]
                    b == AccumulatedBindings(heap, c)
                IN  /\ heap[c].clone_of \in Range(heap[L].children) =>
                          \A name \in caps :
                              /\ name \in DOMAIN b
                              /\ b[name] = <<name, heap[c].iteration>>
                    /\ heap[c].clone_of = 0 =>
                          \A name \in caps : name \notin DOMAIN b

\* The loop at place p of the scope yielded no iteration and the sibling
\* right after it is an element carrying @else.
ZeroLoopThenElse(p) ==
    /\ p < Len(Scope0)
    /\ heap0[Scope0[p]].tag = "For"
    /\ \E e \in 1..Len(loop_log) : loop_log[e].loop = Scope0[p] /\ loop_log[e].n = 0
    /\ IsV2Element(heap0[Scope0[p + 1]])
    /\ HasAttribute(heap0[Scope0[p + 1]], "@else")

\* The else sibling is among the children, stripped, and the loop is not.
ElseSurvives(p) ==
    /\ Scope0[p + 1] \in Range(ScopeNow)
    /\ ~HasAttribute(heap[Scope0[p + 1]], "@else")
    /\ Scope0[p] \notin Range(ScopeNow)

\* C8 as stated: loop fallback. When a loop yields zero iterations and is
\* immediately followed by a sibling carrying else, then after the loop step
\* and the conditional step have run the else sibling is present, stripped,
\* and the loop element is absent.
C8_LoopFallback_AsStated ==
    lpc = "done" => \A p \in 1..Len(Scope0) : ZeroLoopThenElse(p) => ElseSurvives(p)

\* C8, amended: the same, for a loop that was still a child of the scope when
\* the loop step reached it and an else sibling that is not itself a loop
\* element.
C8_LoopFallback ==
    lpc = "done" =>
        \A p \in 1..Len(Scope0) :
            (/\ ZeroLoopThenElse(p)
             /\ heap0[Scope0[p + 1]].tag /= "For"
             /\ \E e \in 1..Len(loop_log) : loop_log[e].loop = Scope0[p] /\ loop_log[e].attached)
            => ElseSurvives(p)

\* Both steps have run on a scope in which an empty loop is followed by a
\* plain element carrying @else.
C8_Witness ==
    /\ lpc = "done"
    /\ \E p \in 1..Len(Scope0) :
          /\ ZeroLoopThenElse(p)
          /\ heap0[Scope0[p + 1]].tag = "p"
          /\ \E e \in 1..Len(loop_log) : loop_log[e].loop = Scope0[p] /\ loop_log[e].attached
          /\ "_loop_fail_" \in DOMAIN heap[Scope0[p + 1]].context

\* The loop's iteration specification is missing or malformed.
BadSpecification(n) == ~parsed_loop(GetEach(n))

\* C9: a failure inside a loop is never fatal. Whichever spelling carries the
\* iteration specification, the loop step never raises for a loop; a loop
\* with a missing or malformed specification or a failed evaluation is
\* converted in place into a permanently-false conditional, and the step goes
\* on with the remaining loops.
C9_LoopFailureNeverFatal ==
    /\ lerr \notin {"ValueError", "KeyError"}
    /\ \A i \in 1..Len(for_loops) :
          (/\ i < li
           /\ heap[for_loops[i]].parent /= 0
           /\ \/ BadSpecification(heap0[for_loops[i]])
              \/ \E e \in 1..Len(loop_log) :
                    loop_log[e].loop = for_loops[i] /\ loop_log[e].n = -1)
          => /\ HasAttribute(heap[for_loops[i]], "@if")
             /\ heap[for_loops[i]].attributes["@if"] = "False"

\* The siblings that follow node n and form its fallback chain: the maximal
\* run of elements carrying @elif right after it, with the element carrying
\* @else that ends the run when there is one.
FallbackChain(h, n) ==
    LET sibs == h[h[n].parent].children
        at == IndexOf(sibs, n)
        Elif(k) == IsV2Element(h[sibs[k]]) /\ HasAttribute(h[sibs[k]], "@elif")
        Else(k) == IsV2Element(h[sibs[k]]) /\ HasAttribute(h[sibs[k]], "@else")
    IN  {sibs[k] : k \in {k \in (at + 1)..Len(sibs) :
                              /\ \A m \in (at + 1)..(k - 1) : Elif(m)
                              /\ Elif(k) \/ Else(k)}}

\* What C27 says of one turn of the loop step for a loop that is a child of
\* the scope: h and h2 are the tree before and after the turn, expanded tells
\* whether the loop yielded an iteration.
FallbackTurn(h, h2, n, expanded) ==
    LET p == h[n].parent
        chain == FallbackChain(h, n)
        others == Range(h[p].children) \ (chain \cup {n})
    IN  IF expanded
        THEN /\ chain \cap Range(h2[p].children) = {}
             /\ others \subseteq Range(h2[p].children)
             /\ \A s \in others : h2[s] = h[s]
        ELSE /\ \A s \in chain :
                   /\ s \in Range(h2[p].children)
                   /\ "_loop_fail_" \in DOMAIN h2[s].context
             /\ \A s \in others : h2[s] = h[s]
             /\ Range(h2[p].children) = Range(h[p].children)

\* C27: the fallback chain of a loop. In every turn of the loop step for a
\* loop that is a child of the scope, when the loop yields an iteration
\* exactly the siblings of its fallback chain are removed from the parent,
\* and when the loop fails or yields nothing exactly these siblings receive
\* the failure reason in their context; no other sibling is changed.
C27_FallbackChain ==
    [][(lpc = "loops" /\ heap[Loop].parent /= 0) =>
          FallbackTurn(heap, heap', Loop, last_exp' /= <<>>)]_vars

(***************************************************************************)
(* Component substitution (src/phml/core/compile.py)                       *)
(***************************************************************************)
\* A node of the tree or of the registry.  properties and locals are the two
\* dictionaries, name -> value; parent and clone_of are identities, 0 for
\* None / not a copy.
CNode(type, tag, props, kids, parent) ==
    [type |-> type, tag |-> tag, properties |-> props, locals |-> <<>>,
     children |-> kids, parent |-> parent, clone_of |-> 0]

\* The children of the root are drawn from these: a text node, a plain
\* element, a call of component B, and a call of component A that is bare,
\* carries a conditional directive in either spelling, or has one child
\* <p @if="c">.
SiteShapes ==
    {[type |-> "text", tag |-> "", properties |-> <<>>, kids |-> 0],
     [type |-> "element", tag |-> "p", properties |-> <<>>, kids |-> 0],
     [type |-> "element", tag |-> "B", properties |-> <<>>, kids |-> 0],
     [type |-> "element", tag |-> "A", properties |-> <<>>, kids |-> 0],
     [type |-> "element", tag |-> "A", properties |-> ("@if" :> "c"), kids |-> 0],
     [type |-> "element", tag |-> "A", properties |-> ("py-if" :> "c"), kids |-> 0],
     [type |-> "element", tag |-> "A", properties |-> <<>>, kids |-> 1]}

\* The registries: A alone, or A and B in either insertion order; the template
\* of A holds one child, a plain element, a call of B, a slot or a call of A
\* itself; A has a style node and may have a script node, B has a style node.
Registries ==
    {[order |-> o, a_child |-> c, a_script |-> sc] :
        o \in {<<"A">>, <<"A", "B">>, <<"B", "A">>}, c \in {"p", "B", "slot", "A"},
        sc \in BOOLEAN}

RECURSIVE SiteKidsBefore(_, _)
\* The number of children of the first i call sites.
SiteKidsBefore(sites, i) ==
    IF i = 0 THEN 0 ELSE SiteKidsBefore(sites, i - 1) + sites[i].kids

\* The registry nodes: 2 and 3 the template of A and its child, 4 and 5 the
\* style and script nodes of A, 6 the template of B, 7 its style node.  The
\* children of the root follow, and then the children of the call sites.
BuildTree(reg, sites) ==
    LET n == Len(sites)
        kid(i) == 7 + n + SiteKidsBefore(sites, i)
    IN  [id \in 1..(7 + n + SiteKidsBefore(sites, n)) |->
            CASE id = 1 -> CNode("root", "", <<>>, [i \in 1..n |-> 7 + i], 0)
              [] id = 2 -> CNode("element", "div", <<>>, <<3>>, 0)
              [] id = 3 -> CNode("element", reg.a_child, <<>>, <<>>, 2)
              [] id = 4 -> CNode("element", "style", <<>>, <<>>, 0)
              [] id = 5 -> CNode("element", "script", <<>>, <<>>, 0)
              [] id = 6 -> CNode("element", "span", <<>>, <<>>, 0)
              [] id = 7 -> CNode("element", "style", <<>>, <<>>, 0)
              [] id > 7 /\ id <= 7 + n ->
                    LET sh == sites[id - 7]
                    IN  CNode(sh.type, sh.tag, sh.properties,
                              IF sh.kids = 1 THEN <<kid(id - 7)>> ELSE <<>>, 1)
              [] OTHER ->
                    LET i == CHOOSE i \in 1..n : sites[i].kids = 1 /\ kid(i) = id
                    IN  CNode("element", "p", ("@if" :> "c"), <<>>, 7 + i)]

\* The value the registry holds for a name.
ComponentValue(reg, name) ==
    IF name = "A"
    THEN [component |-> 2, python |-> <<>>,
          script |-> IF reg.a_script THEN <<5>> ELSE <<>>, style |-> <<4>>]
    ELSE [component |-> 6, python |-> <<>>, script |-> <<>>, style |-> <<7>>]

RECURSIVE Preorder(_, _)
RECURSIVE PreorderAll(_, _)
\* The nodes below a node, depth first and left to right; a node that sits in
\* two child sequences is met twice.
Preorder(h, id) == <<id>> \o PreorderAll(h, h[id].children)

PreorderAll(h, ids) ==
    IF ids = <<>> THEN <<>> ELSE Preorder(h, Head(ids)) \o PreorderAll(h, Tail(ids))

\* find(node, ["element", {"tag": name}]): the first matching element, or 0.
find(h, name) ==
    LET pre == PreorderAll(h, h[1].children)
        hits == {i \in 1..Len(pre) : h[pre[i]].type = "element" /\ h[pre[i]].tag = name}
    IN  IF hits = {} THEN 0 ELSE pre[CHOOSE i \in hits : \A j \in hits : i <= j]

\* The directive attributes in the order __has_py_condition tries them.
PyConditionOrder == <<"py-for", "py-if", "py-elif", "py-else", "@if", "@elif", "@else", "@for">>

\* __has_py_condition: the first directive attribute the node carries, as a
\* set of at most one name.
has_py_condition(n) ==
    LET hits == {i \in 1..Len(PyConditionOrder) : PyConditionOrder[i] \in DOMAIN n.properties}
    IN  IF hits = {} THEN {}
        ELSE {PyConditionOrder[CHOOSE i \in hits : \A j \in hits : i <= j]}

\* prop.startswith((python_attr_prefix, "py-")), for the names of the model.
IsPythonProp(prop) == prop \in {"py-for", "py-if", "py-elif", "py-else"}

\* The key a call-site property gets in new_props:
\* prop.lstrip(python_attr_prefix).lstrip("py-") for a python property, the
\* name itself otherwise.
PropKey(prop) ==
    CASE prop = "py-for" -> "for"
      [] prop = "py-if" -> "if"
      [] prop = "py-elif" -> "elif"
      [] prop = "py-else" -> "else"
      [] OTHER -> prop

\* new_props: a python property holds the evaluator's result for its value,
\* another property its value.
NewProps(n) ==
    [k \in {PropKey(p) : p \in DOMAIN n.properties} |->
        LET p == CHOOSE p \in DOMAIN n.properties : PropKey(p) = k
        IN  IF IsPythonProp(p) THEN <<"result", n.properties[p]>> ELSE n.properties[p]]

\* `rnode.properties[condition[0]] = condition[1]`
RetainCondition(tprops, site, condition) ==
    [k \in DOMAIN tprops \cup condition |->
        IF k \in condition THEN site.properties[k] ELSE tprops[k]]

\* The nodes put in place of a call site: the python, script and style nodes
\* of the component, then the new element.
Replacement(value, rnode) == value.python \o value.script \o value.style \o <<rnode>>

CurrentName == components[ck][1]
CurrentValue == components[ck][2]

\* The state when replace_components is called on a tree of at most `most` children
\* with one of the registries.
StartComp(most) ==
    /\ \E reg \in Registries :
          /\ components = [i \in 1..Len(reg.order) |->
                              <<reg.order[i], ComponentValue(reg, reg.order[i])>>]
          /\ \E n \in 0..most :
                \E sites \in [1..n -> SiteShapes] : ctree = BuildTree(reg, sites)
    /\ ctree0 = ctree
    /\ ck = 1
    /\ subs = <<>>
    /\ cpc = "run"

InitComp ==
    /\ ManagerIdle
    /\ ScanIdle
    /\ GeneratedIdle
    /\ RemoveIdle
    /\ CondIdle
    /\ LoopIdle
    /\ PipeIdle
    /\ CompileIdle
    /\ BindIdle
    /\ StartComp(MaxSites)

\* One turn of the while loop of replace_components: the first element whose
\* tag is the current name is replaced by the side nodes of the component and
\* a deep copy of its template.
replace_components ==
    /\ cpc = "run"
    /\ find(ctree, CurrentName) /= 0
    /\ Len(subs) < MaxSubs
    /\ LET curr_node == find(ctree, CurrentName)
           template == CurrentValue.component
           top == Cardinality(DOMAIN ctree)
           rnode == top + 1
           kids == [j \in 1..Len(ctree[template].children) |-> top + 1 + j]
           condition == has_py_condition(ctree[curr_node])
           parent == ctree[curr_node].parent
           idx == IndexOf(ctree[parent].children, curr_node)
           props == ("children" :> ctree[curr_node].children) @@ NewProps(ctree[curr_node])
           merged == props @@ ctree[template].locals
           copies ==
               [id \in (top + 1)..(top + 1 + Len(kids)) |->
                   IF id = rnode
                   THEN [ctree[template] EXCEPT
                            !.children = kids,
                            !.locals = [k \in DOMAIN merged \ condition |-> merged[k]],
                            !.properties = RetainCondition(@, ctree[curr_node], condition),
                            !.parent = parent,
                            !.clone_of = template]
                   ELSE [ctree[ctree[template].children[id - rnode]] EXCEPT
                            !.parent = rnode,
                            !.clone_of = ctree[template].children[id - rnode]]]
       IN  /\ ctree' = [ctree EXCEPT ![parent].children =
                           SubSeq(@, 1, idx - 1) \o Replacement(CurrentValue, rnode)
                              \o SubSeq(@, idx + 1, Len(@))] @@ copies
           /\ subs' = Append(subs, [site |-> curr_node, name |-> CurrentName, rnode |-> rnode])
    /\ UNCHANGED <<ctree0, components, ck, cpc>>
    /\ UNCHANGED compOthers

\* No element with the current name is left: the for loop takes the next
\* name of the registry, or ends.
next_component ==
    /\ cpc = "run"
    /\ ck <= Len(components)
    /\ find(ctree, CurrentName) = 0
    /\ ck' = ck + 1
    /\ cpc' = IF ck + 1 > Len(components) THEN "done" ELSE "run"
    /\ UNCHANGED <<ctree, ctree0, components, subs>>
    /\ UNCHANGED compOthers

\* The tree below the root, depth first.
Output == PreorderAll(ctree, ctree[1].children)

\* The conditional directives of an if.
IfNames == {"py-if", "@if"}

CarriesIf(n) == n.type = "element" /\ DOMAIN n.properties \cap IfNames /= {}

\* apply_conditions on the tree after replace_components, for a tree whose
\* only directives are ifs: in every scope, depth first, an element whose
\* condition is false leaves the child sequence and one whose condition is
\* true loses the directive.  A node that is not in the tree is not met.
apply_conditions ==
    /\ cpc = "done"
    /\ \E out \in [{c \in Range(Output) : CarriesIf(ctree[c])} -> {"T", "F"}] :
          LET keep(c) == ~CarriesIf(ctree[c]) \/ (c \in DOMAIN out /\ out[c] = "T")
              hf == [id \in DOMAIN ctree |->
                        [ctree[id] EXCEPT !.children = SelectSeq(@, keep)]]
              reach == Range(PreorderAll(hf, hf[1].children)) \cup {1}
          IN  ctree' = [id \in DOMAIN ctree |->
                           IF id \in reach
                           THEN [hf[id] EXCEPT !.properties =
                                    [p \in DOMAIN @ \ IfNames |-> @[p]]]
                           ELSE ctree[id]]
    /\ cpc' = "conditions"
    /\ UNCHANGED <<ctree0, components, ck, subs>>
    /\ UNCHANGED compOthers

RECURSIVE Splice(_, _, _)
\* The child sequence with every slot element replaced by the nodes.
Splice(h, kids, nodes) ==
    IF kids = <<>> THEN <<>>
    ELSE (IF h[Head(kids)].type = "element" /\ h[Head(kids)].tag = "slot"
          THEN nodes ELSE <<Head(kids)>>) \o Splice(h, Tail(kids), nodes)

\* replace_node(child, ["element", {"tag": "slot"}], child.locals["children"]),
\* for a slot that is a child of the element.
replace_node(h, id) ==
    [h[id] EXCEPT !.children = Splice(h, @, h[id].locals["children"])]

\* apply_python: every element of the tree that has a `children` binding gets
\* its slot replaced by the bound nodes, and the properties of every element
\* are rebuilt (a python property under its stripped name).
apply_python ==
    /\ cpc = "conditions"
    /\ LET slotted(id) == ctree[id].type = "element" /\ "children" \in DOMAIN ctree[id].locals
           h1 == [id \in DOMAIN ctree |->
                     IF id \in Range(Output) /\ slotted(id)
                     THEN replace_node(ctree, id) ELSE ctree[id]]
           reach == Range(PreorderAll(h1, h1[1].children))
       IN  ctree' = [id \in DOMAIN ctree |->
                        IF id \in reach /\ h1[id].type = "element"
                        THEN [h1[id] EXCEPT !.properties = NewProps(h1[id])]
                        ELSE h1[id]]
    /\ cpc' = "html"
    /\ UNCHANGED <<ctree0, components, ck, subs>>
    /\ UNCHANGED compOthers

NextComp ==
    \/ replace_components
    \/ next_component
    \/ apply_conditions
    \/ apply_python

SpecComp == InitComp /\ [][NextComp]_vars

\* The passes on a tree of at most MaxCalls children, with the loops of
\* replace_components and the passes of __html running on: a call that can
\* take a step takes it.
InitCall ==
    /\ ManagerIdle
    /\ ScanIdle
    /\ GeneratedIdle
    /\ RemoveIdle
    /\ CondIdle
    /\ LoopIdle
    /\ PipeIdle
    /\ CompileIdle
    /\ BindIdle
    /\ StartComp(MaxCalls)

SpecCompFair == InitCall /\ [][NextComp]_vars /\ WF_vars(NextComp)

(***************************************************************************)
(* Properties of component substitution                                    *)
(***************************************************************************)
Occurrences(seq, x) == Cardinality({i \in 1..Len(seq) : seq[i] = x})

\* The places in the output of the elements substituted for calls of the
\* component whose template is t.
SubstitutedAt(t) == {i \in 1..Len(Output) : ctree[Output[i]].clone_of = t}

\* C10: component hoisting idempotence. When replace_components has returned,
\* for every component that was called at m >= 1 sites, each of its style and
\* script nodes occurs in the output exactly once, and they sit right before
\* the element substituted for the first call site.
C10_HoistingIdempotence ==
    cpc = "done" =>
        \A c \in 1..Len(components) :
            LET value == components[c][2]
                side == value.script \o value.style
                at == SubstitutedAt(value.component)
                first == CHOOSE i \in at : \A j \in at : i <= j
            IN  at /= {} =>
                    /\ \A s \in Range(side) : Occurrences(Output, s) = 1
                    /\ first > Len(side)
                    /\ SubSeq(Output, first - Len(side), first - 1) = side

\* The registered component names.
Registered == {components[c][1] : c \in 1..Len(components)}

\* C11: component substitution is complete. When replace_components has
\* returned, no element of the tree has a tag equal to a registered component
\* name, whatever the templates hold and whatever the order of the registry.
C11_SubstitutionComplete ==
    cpc = "done" =>
        \A c \in Range(Output) :
            ctree[c].type = "element" => ctree[c].tag \notin Registered

\* C12: directive retention. When replace_components has returned, the
\* element substituted for a call site that carried a directive carries the
\* same directive with the same value, and its context bindings hold nothing
\* under the directive's name or under the key the directive was copied to.
C12_DirectiveRetained ==
    cpc = "done" =>
        \A e \in 1..Len(subs) :
            \A d \in has_py_condition(ctree[subs[e].site]) :
                LET r == ctree[subs[e].rnode]
                IN  /\ d \in DOMAIN r.properties
                    /\ r.properties[d] = ctree[subs[e].site].properties[d]
                    /\ d \notin DOMAIN r.locals
                    /\ PropKey(d) \notin DOMAIN r.locals

\* C16: output cleanliness. When the passes of __html have run, no element of
\* the compiled tree carries a directive attribute, the nodes that came in as
\* children of a call site and were put back at a slot included.
C16_OutputClean ==
    cpc = "html" =>
        \A c \in Range(Output) :
            ctree[c].type = "element" =>
                DOMAIN ctree[c].properties \cap ConditionSet = {}

(***************************************************************************)
(* The scoped step pipeline (src/phml/compiler/__init__.py)                *)
(***************************************************************************)
\* __STEPS__, the scoped steps in the order _process_scope_ runs them.
STEPS_LoopsLast ==
    <<"step_replace_phml_wrapper", "step_execute_conditions", "step_compile_markdown",
      "step_execute_embedded_python", "step_substitute_components", "step_expand_loop_tags">>

STEPS ==
    <<"step_replace_phml_wrapper", "step_expand_loop_tags", "step_execute_conditions",
      "step_compile_markdown", "step_execute_embedded_python", "step_substitute_components">>

\* The keys a step may write into the results map.
ResultKeys == {"cache"}

\* A node of an input tree, before it has an identity: `up` is the place in
\* the shape of its parent, 0 for the root of the tree.
PNode(type, tag, attrs, up) == [type |-> type, tag |-> tag, attributes |-> attrs, up |-> up]

\* The children of the root are drawn from these subtrees: a text, <p @if>,
\* <div><p/></div>, and a <For> over <div><p/></div> and over another <For>
\* over <li/>.
PipeShapes ==
    {<<PNode("literal", "", <<>>, 0)>>,
     <<PNode("element", "p", ("@if" :> "c"), 0)>>,
     <<PNode("element", "div", <<>>, 0), PNode("element", "p", <<>>, 1)>>,
     <<PNode("element", "For", (":each" :> EachMatching), 0), PNode("element", "div", <<>>, 1),
       PNode("element", "p", <<>>, 2)>>,
     <<PNode("element", "For", (":each" :> EachMatching), 0),
       PNode("element", "For", (":each" :> EachMatching), 1), PNode("element", "li", <<>>, 2)>>}

\* The tree with one more subtree under the root.
AddShape(h, shape) ==
    LET top == Cardinality(DOMAIN h)
        places == [m \in 1..Len(shape) |-> m]
        kidsOf(j) == SelectSeq(places, LAMBDA m : shape[m].up = j)
        made == [id \in (top + 1)..(top + Len(shape)) |->
                    LET d == shape[id - top]
                    IN  MkNode(d.type, d.tag, d.attributes,
                               [q \in 1..Len(kidsOf(id - top)) |-> top + kidsOf(id - top)[q]],
                               IF d.up = 0 THEN 1 ELSE top + d.up)]
    IN  [h EXCEPT ![1].children = Append(@, top + 1)] @@ made

RECURSIVE BuildPipe(_, _)
\* The tree for the first i subtrees of a sequence of shapes; 1 is the root.
BuildPipe(shapes, i) ==
    IF i = 0 THEN (1 :> MkNode("root", "", <<>>, <<>>, 0))
    ELSE AddShape(BuildPipe(shapes, i - 1), shapes[i])

RECURSIVE Canon(_, _)
\* The structure below a node: type, tag, attributes and children in order,
\* without identities, contexts and positions.
Canon(h, id) ==
    [type |-> h[id].type, tag |-> h[id].tag, attributes |-> h[id].attributes,
     children |-> [j \in 1..Len(h[id].children) |-> Canon(h, h[id].children[j])]]

\* deepcopy(node.children) in gen_new_children for turn `it`: a copy of every
\* node below the loop, the copies of the loop's children losing parent and
\* position and, when elements, getting the captures in their context.
deepcopy_children(h, kids, caps, it, base) ==
    LET pre == PreorderAll(h, kids)
    IN  [id \in (base + 1)..(base + Len(pre)) |->
            LET o == pre[id - base]
                below == [h[o] EXCEPT !.children = [j \in 1..Len(@) |-> base + IndexOf(pre, @[j])],
                                      !.clone_of = o,
                                      !.iteration = it]
            IN  IF o \in Range(kids)
                THEN [below EXCEPT !.context = clone_context(h[o], [c \in caps |-> <<c, it>>]),
                                   !.parent = 0,
                                   !.position = FALSE]
                ELSE [below EXCEPT !.parent = base + IndexOf(pre, h[o].parent)]]

\* One turn of `for loop in for_loops` for a loop with a well-formed :each
\* that yields n items.
expand_loop(h, loop, n) ==
    IF n = 0 THEN replace_default(h, loop, <<"No iterations occured", 0>>)
    ELSE IF h[loop].parent = 0 THEN h
    ELSE LET kids == h[loop].children
             pre == PreorderAll(h, kids)
             m == Len(pre)
             top == Cardinality(DOMAIN h)
             parent == h[loop].parent
             h1 == remove_fallbacks(h, loop)
             idx == IndexOf(h1[parent].children, loop)
             h2 == ParentRemove(h1, parent, loop)
             made == [id \in (top + 1)..(top + n * m) |->
                         deepcopy_children(h, kids, captures(GetEach(h[loop])),
                                           ((id - top - 1) \div m) + 1,
                                           top + ((id - top - 1) \div m) * m)[id]]
             ids == [q \in 1..(n * Len(kids)) |->
                        top + ((q - 1) \div Len(kids)) * m
                            + IndexOf(pre, kids[((q - 1) % Len(kids)) + 1])]
         IN  ParentInsert(h2 @@ made, parent, idx, ids)

RECURSIVE expand_loops(_, _, _)
\* The loop `for loop in for_loops`, ns giving the items each loop yields.
expand_loops(h, loops, ns) ==
    IF loops = <<>> THEN h
    ELSE expand_loops(expand_loop(h, Head(loops), ns[Head(loops)]), Tail(loops), ns)

\* The conditional step on a scope whose chains resolved to r.
resolve_scope(h, scope, r) ==
    [id \in DOMAIN h |->
        IF id = scope THEN [h[id] EXCEPT !.children = r.kept]
        ELSE IF id \in r.stripped
        THEN [h[id] EXCEPT !.attributes = [a \in DOMAIN @ \ V2Directives |-> @[a]]]
        ELSE IF id \in Range(h[scope].children) \ Range(r.kept)
        THEN [h[id] EXCEPT !.parent = 0]
        ELSE h[id]]

compile_results_Kept(old) == old

\* `self.results = {}` at the head of compile.
compile_results(old) == {}

InitPipe ==
    /\ ManagerIdle
    /\ ScanIdle
    /\ GeneratedIdle
    /\ RemoveIdle
    /\ CondIdle
    /\ LoopIdle
    /\ CompIdle
    /\ CompileIdle
    /\ BindIdle
    /\ \E n \in 0..MaxTop :
          \E shapes \in [1..n -> PipeShapes] : ptree = BuildPipe(shapes, n)
    /\ pstack = <<>>
    /\ plog = <<>>
    /\ results = {}
    /\ pstale = {}
    /\ pout = <<>>
    /\ ppc = "ready"

\* The frame of _process_scope_ that is running.
Frame == pstack[Len(pstack)]

\* The frame goes on to its next step, or to its loop over the children.
FrameStepped == [pstack EXCEPT ![Len(pstack)].step = @ + 1]

\* HypertextMarkupCompiler.compile up to the call of _process_scope_ on the
\* root: the results map is emptied and the tree is the compiler's own copy.
\* The compiler is called twice, the second time on what the first call
\* returned.
compile ==
    /\ ppc \in {"ready", "returned"}
    /\ Len(pout) < 2
    /\ pstale' = results
    /\ results' = compile_results(results)
    /\ pstack' = <<[node |-> 1, step |-> 1, idx |-> 1]>>
    /\ plog' = <<>>
    /\ ppc' = "scope"
    /\ UNCHANGED <<ptree, pout>>
    /\ UNCHANGED pipeOthers

\* `_step(node, components, context, self.results)` for the loop step.
scoped_loops ==
    /\ ppc = "scope"
    /\ Frame.step <= Len(STEPS)
    /\ STEPS[Frame.step] = "step_expand_loop_tags"
    /\ LET loops == SelectSeq(ptree[Frame.node].children,
                              LAMBDA c : IsV2Element(ptree[c]) /\ ptree[c].tag = "For")
       IN  \E ns \in [Range(loops) -> 0..MaxTurns] :
              ptree' = expand_loops(ptree, loops, ns)
    /\ plog' = Append(plog, [node |-> Frame.node, step |-> STEPS[Frame.step]])
    /\ pstack' = FrameStepped
    /\ UNCHANGED <<results, pstale, pout, ppc>>
    /\ UNCHANGED pipeOthers

\* `_step(node, components, context, self.results)` for the conditional step.
scoped_conditions ==
    /\ ppc = "scope"
    /\ Frame.step <= Len(STEPS)
    /\ STEPS[Frame.step] = "step_execute_conditions"
    /\ \E out \in [{c \in Range(ptree[Frame.node].children) :
                        DirectivesOf(ptree[c]) \cap {"@if", "@elif"} /= {}} -> {"T", "F"}] :
          LET r == Resolve(ptree, ptree[Frame.node].children, "none", out)
          IN  IF r.ok
              THEN /\ ptree' = resolve_scope(ptree, Frame.node, r)
                   /\ pstack' = FrameStepped
                   /\ ppc' = "scope"
              ELSE /\ ptree' = ptree
                   /\ pstack' = <<>>
                   /\ ppc' = "error"
    /\ plog' = Append(plog, [node |-> Frame.node, step |-> STEPS[Frame.step]])
    /\ UNCHANGED <<results, pstale, pout>>
    /\ UNCHANGED pipeOthers

\* `_step(node, components, context, self.results)` for a step that changes
\* nothing in a tree without wrappers, markdown, markers and components; it
\* may write into the results map.
scoped_other ==
    /\ ppc = "scope"
    /\ Frame.step <= Len(STEPS)
    /\ STEPS[Frame.step] \notin {"step_expand_loop_tags", "step_execute_conditions"}
    /\ \E written \in SUBSET ResultKeys : results' = results \cup written
    /\ plog' = Append(plog, [node |-> Frame.node, step |-> STEPS[Frame.step]])
    /\ pstack' = FrameStepped
    /\ UNCHANGED <<ptree, pstale, pout, ppc>>
    /\ UNCHANGED pipeOthers

\* One turn of `for child in node`: an element child gets its own call of
\* _process_scope_, another child is passed over.
scope_child ==
    /\ ppc = "scope"
    /\ Frame.step > Len(STEPS)
    /\ Frame.idx <= Len(ptree[Frame.node].children)
    /\ LET child == ptree[Frame.node].children[Frame.idx]
           turned == [pstack EXCEPT ![Len(pstack)].idx = @ + 1]
       IN  pstack' = IF IsV2Element(ptree[child])
                     THEN Append(turned, [node |-> child, step |-> 1, idx |-> 1])
                     ELSE turned
    /\ UNCHANGED <<ptree, plog, results, pstale, pout, ppc>>
    /\ UNCHANGED pipeOthers

\* `for child in node` is exhausted: the call of _process_scope_ returns; when
\* it was the call on the root, compile runs the post steps and returns.
scope_return ==
    /\ ppc = "scope"
    /\ Frame.step > Len(STEPS)
    /\ Frame.idx > Len(ptree[Frame.node].children)
    /\ pstack' = SubSeq(pstack, 1, Len(pstack) - 1)
    /\ IF Len(pstack) = 1
       THEN /\ ppc' = "returned"
            /\ pout' = Append(pout, Canon(ptree, 1))
       ELSE UNCHANGED <<ppc, pout>>
    /\ UNCHANGED <<ptree, plog, results, pstale>>
    /\ UNCHANGED pipeOthers

NextPipe ==
    \/ compile
    \/ scoped_loops
    \/ scoped_conditions
    \/ scoped_other
    \/ scope_child
    \/ scope_return

SpecPipe == InitPipe /\ [][NextPipe]_vars

(***************************************************************************)
(* Properties of the pipeline                                              *)
(***************************************************************************)
\* The four steps the order is claimed for, in the claimed order.
ClaimedOrder ==
    <<"step_expand_loop_tags", "step_execute_conditions",
      "step_execute_embedded_python", "step_substitute_components">>

\* The elements of the tree below the root.
PipeElements ==
    {c \in Range(PreorderAll(ptree, ptree[1].children)) : IsV2Element(ptree[c])}

\* C13: pipeline order. On every scope the steps run in the order loop
\* expansion, conditional resolution, expression substitution, component
\* substitution, each at most once; every step of a scope has run before any
\* step runs on an element child of it; and when compile has returned every
\* element of the tree has been visited exactly once.
C13_PipelineOrder ==
    /\ \A i, j \in 1..Len(plog) :
          /\ (i < j /\ plog[i].node = plog[j].node) =>
                /\ plog[i].step /= plog[j].step
                /\ \A a, b \in 1..Len(ClaimedOrder) :
                      (plog[i].step = ClaimedOrder[a] /\ plog[j].step = ClaimedOrder[b])
                          => a < b
          /\ ptree[plog[j].node].parent = plog[i].node => i < j
    /\ \A j \in 1..Len(plog) :
          LET up == ptree[plog[j].node].parent
          IN  up /= 0 =>
                 \A a \in 1..Len(ClaimedOrder) :
                    \E i \in 1..(j - 1) : plog[i] = [node |-> up, step |-> ClaimedOrder[a]]
    /\ ppc = "returned" =>
          \A c \in PipeElements : \A a \in 1..Len(ClaimedOrder) :
             Cardinality({i \in 1..Len(plog) :
                             plog[i] = [node |-> c, step |-> ClaimedOrder[a]]}) = 1

\* compile has returned from a tree in which a loop over <div><p/></div> was
\* expanded: the copies of the <div> and of the <p> below it were visited.
C13_Witness ==
    /\ ppc = "returned"
    /\ \E c \in PipeElements :
          /\ ptree[c].tag = "p"
          /\ ptree[c].clone_of /= 0
          /\ ptree[c].parent /= 1
          /\ ptree[ptree[c].parent].iteration = 1
          /\ \E i \in 1..Len(plog) : plog[i].node = c

\* C15: the results map is empty when the first step of a compile call runs,
\* whatever earlier calls on the same compiler wrote into it.
C15_ResultsFresh ==
    (ppc = "scope" /\ plog = <<>>) => results = {}

\* The second compile call is about to run its first step and the first call
\* had left an entry in the results map.
C15_Witness ==
    /\ ppc = "scope"
    /\ plog = <<>>
    /\ Len(pout) = 1
    /\ pstale /= {}

\* C18: idempotence on output. Compiling the result of a compilation gives a
\* tree structurally equal to that result.
C18_Idempotent ==
    Len(pout) >= 2 => pout[2] = pout[1]

\* The nodes the registry stores: the template of each component with the
\* nodes below it, and its python, script and style nodes.
RegistryNodes ==
    UNION {Range(Preorder(ctree, components[i][2].component))
              \cup Range(components[i][2].python)
              \cup Range(components[i][2].script)
              \cup Range(components[i][2].style) : i \in 1..Len(components)}

\* C22: parent-link invariant. After every mutation done by component
\* substitution, every node reachable from the root other than the root has
\* a parent pointer that is the node whose child sequence holds it.
C22_ParentLinks ==
    cpc \in {"run", "done"} =>
        \A n \in Range(Preorder(ctree, 1)) :
            \A i \in 1..Len(ctree[n].children) :
                ctree[ctree[n].children[i]].parent = n

\* C23: no aliasing. In the tree produced by component substitution no node
\* occurs at two positions and no node of the tree is a node stored in the
\* registry.
C23_NoAliasing ==
    cpc \in {"run", "done"} =>
        LET pre == Preorder(ctree, 1)
        IN  /\ \A i, j \in 1..Len(pre) : pre[i] = pre[j] => i = j
            /\ Range(pre) \cap RegistryNodes = {}

AstKinds == {"doctype", "element", "text", "comment", "python"}

\* The formats asked for: the two built-in ones that render a tree, and one
\* that compile does not know and for which no handler is given.
Formats == {"phml", "html", "unknown"}

InitCompile ==
    /\ ManagerIdle
    /\ ScanIdle
    /\ GeneratedIdle
    /\ RemoveIdle
    /\ CondIdle
    /\ LoopIdle
    /\ CompIdle
    /\ PipeIdle
    /\ BindIdle
    /\ \E n \in 0..MaxAst : ast \in [1..n -> AstKinds]
    /\ ast0 = ast
    /\ html = <<>>
    /\ to_format = ""
    /\ kpc = "call"

\* `if len(doctypes) == 0: ast.tree.children.insert(0, DocType(ast.tree))`
insert_doctype(tree) ==
    IF \E i \in 1..Len(tree) : tree[i] = "doctype" THEN tree ELSE <<"doctype">> \o tree

\* remove_nodes(html, ["element", {"tag": "python"}])
remove_python(tree) == SelectSeq(tree, LAMBDA k : k /= "python")

\* Compiler.compile: the doctype check on the tree passed in, then the
\* dispatch on to_format.  __phml renders the tree itself; an unknown format
\* without a handler raises.
compile_ast ==
    /\ kpc = "call"
    /\ ast' = insert_doctype(ast)
    /\ \E f \in Formats :
          /\ to_format' = f
          /\ kpc' = CASE f = "phml" -> "returned"
                      [] f = "html" -> "html"
                      [] OTHER -> "raised"
          /\ html' = IF f = "phml" THEN ast' ELSE html
    /\ UNCHANGED ast0
    /\ UNCHANGED compileOthers

\* Compiler.__html: the passes run on a deep copy of the tree; the python
\* elements are removed from the copy, and the other passes find nothing to
\* act on in a tree of these kinds.
compile_html ==
    /\ kpc = "html"
    /\ html' = remove_python(ast)
    /\ kpc' = "returned"
    /\ UNCHANGED <<ast, ast0, to_format>>
    /\ UNCHANGED compileOthers

NextCompile == compile_ast \/ compile_html

SpecCompile == InitCompile /\ [][NextCompile]_vars

\* C14: a compilation never mutates its inputs. After a call of compile,
\* whether it returned or raised, the tree passed in is what it was before
\* the call.
C14_InputsUntouched ==
    kpc \in {"returned", "raised"} => ast = ast0

\* C17: round trip on no-ops. For a tree without directives, markers, loops
\* and component calls, the tree after a full run to html has the same nodes
\* in the same order as the tree passed in.
C17_NoOpRoundTrip ==
    (kpc = "returned" /\ to_format = "html") => html = ast0

(***************************************************************************)
(* The bindings an evaluation sees (src/phml/core/compile.py)              *)
(***************************************************************************)
\* The places a name can be bound, the farthest first: the keyword arguments
\* of the caller, the globals of the python elements (vp.locals), the locals
\* of a farther ancestor, of the parent, and of the element itself.
Levels == <<"caller", "script", "far", "near", "own">>

\* The value of the last of the given levels that binds the name; a level
\* binds the name to a value of its own.  "NameError" when none binds it.
LastBound(env, order) ==
    LET hits == {i \in 1..Len(order) : env[order[i]]}
    IN  IF hits = {} THEN "NameError"
        ELSE order[CHOOSE i \in hits : \A j \in hits : j <= i]

InitBind ==
    /\ ManagerIdle
    /\ ScanIdle
    /\ GeneratedIdle
    /\ RemoveIdle
    /\ CondIdle
    /\ LoopIdle
    /\ CompIdle
    /\ PipeIdle
    /\ CompileIdle
    /\ benv \in [{"caller", "script", "far", "near", "own"} -> BOOLEAN]
    /\ bres = <<>>

\* execute_conditions for an if or an elif: kwargs.update(vp.locals), then
\* the locals of the ancestors from the root down, then the element's own.
condition_bindings(env) == LastBound(env, <<"caller", "script", "far", "near", "own">>)

\* process_children for a python attribute:
\* get_vp_result(value, **le, **vp.locals), where le holds the caller's
\* keyword arguments updated by the locals from the root down.  A name in
\* both le and vp.locals is a repeated keyword argument.
code_bindings(env) ==
    IF env["script"] /\ (env["caller"] \/ env["far"] \/ env["near"] \/ env["own"])
    THEN "TypeError"
    ELSE LastBound(env, <<"script", "caller", "far", "near", "own">>)

\* process_vp_blocks(value, vp, **le): the bindings of le over the globals of
\* the python elements.
block_bindings(env) == LastBound(env, <<"script", "caller", "far", "near", "own">>)

\* The evaluation of `py-if="x"` / `@if="x"` on the element.
eval_condition ==
    /\ bres = <<>>
    /\ bres' = [kind |-> "condition", value |-> condition_bindings(benv)]
    /\ UNCHANGED benv
    /\ UNCHANGED bindOthers

\* The evaluation of `:title="x"` on the element.
eval_code_attribute ==
    /\ bres = <<>>
    /\ bres' = [kind |-> "code", value |-> code_bindings(benv)]
    /\ UNCHANGED benv
    /\ UNCHANGED bindOthers

\* The evaluation of `title="{x}"` on the element.
eval_marked_attribute ==
    /\ bres = <<>>
    /\ bres' = [kind |-> "attribute", value |-> block_bindings(benv)]
    /\ UNCHANGED benv
    /\ UNCHANGED bindOthers

\* execute_conditions for a py-for / @for: the loop statement is run by exec
\* with the locals {children, insert, child, local_vals, **kwargs}, kwargs
\* having been updated by vp.locals; the locals of the ancestors and of the
\* element are the value of the one name local_vals.
loop_bindings(env) == LastBound(env, <<"caller", "script">>)

\* The evaluation of the source of `py-for="i in x"` on the element.
eval_loop_source ==
    /\ bres = <<>>
    /\ bres' = [kind |-> "loop", value |-> loop_bindings(benv)]
    /\ UNCHANGED benv
    /\ UNCHANGED bindOthers

\* The evaluation of the text `{x}` right below the element: the bindings are
\* those of the element.
eval_text ==
    /\ bres = <<>>
    /\ bres' = [kind |-> "text", value |-> block_bindings(benv)]
    /\ UNCHANGED benv
    /\ UNCHANGED bindOthers

NextBind ==
    \/ eval_condition
    \/ eval_code_attribute
    \/ eval_marked_attribute
    \/ eval_text
    \/ eval_loop_source

SpecBind == InitBind /\ [][NextBind]_vars

\* The values the nearest binding can give: that of the nearest context that
\* binds the name, else that of a global (the caller's or the script's).
Nearest(env) ==
    IF env["own"] THEN {"own"}
    ELSE IF env["near"] THEN {"near"}
    ELSE IF env["far"] THEN {"far"}
    ELSE IF env["caller"] \/ env["script"]
    THEN {l \in {"caller", "script"} : env[l]}
    ELSE {"NameError"}

\* C20: binding precedence. When a name is bound at several levels, the
\* evaluation of a condition, of an interpolated attribute, of an
\* evaluate-as-code attribute and of a text node at the element uses the
\* value of the nearest binding.
C20_NearestBindingWins ==
    (bres /= <<>> /\ bres.kind \in {"condition", "attribute", "code", "text"}) =>
        bres.value \in Nearest(benv)

\* C21: the source expression of a loop is evaluated against the bindings of
\* the loop's position. When an enclosing loop or component binds the name
\* the source uses, the evaluation of the source finds the name and uses the
\* value of the nearest binding.
C21_LoopSourceBindings ==
    (bres /= <<>> /\ bres.kind = "loop" /\ (benv["far"] \/ benv["near"])) =>
        bres.value \in Nearest(benv)

(***************************************************************************)
(* Compiler.remove (src/phml/core/compile.py)                              *)
(***************************************************************************)
\* The names components are registered under, with the number of characters
\* of each, and a name that is never registered.
ComponentNames == {"a", "ab", "nav"}
NameLength == [a |-> 1, ab |-> 2, nav |-> 3, zz |-> 2]

\* The node that is the template of the component registered under a name,
\* and a node that is the template of no component.
TemplateOf == [a |-> 1, ab |-> 2, nav |-> 3]
StrayNode == 4

\* The registries: the sequences of distinct names, each with the parsed
\* result of its component.
RemoveRegistries ==
    {[i \in 1..Len(o) |-> <<o[i], [component |-> TemplateOf[o[i]]]>>] :
        o \in {q \in UNION {[1..n -> ComponentNames] : n \in 0..MaxNames} :
                  \A i, j \in 1..Len(q) : q[i] = q[j] => i = j}}

\* What remove can be given: a name, registered or not, or a node.
RemoveArguments ==
    {[kind |-> "str", name |-> n, node |-> 0] : n \in ComponentNames \cup {"zz"}}
    \cup {[kind |-> "node", name |-> "", node |-> n] : n \in 1..StrayNode}

InitRemove ==
    /\ ManagerIdle
    /\ ScanIdle
    /\ GeneratedIdle
    /\ CondIdle
    /\ LoopIdle
    /\ CompIdle
    /\ PipeIdle
    /\ CompileIdle
    /\ BindIdle
    /\ registry \in RemoveRegistries
    /\ registry0 = registry
    /\ removing \in RemoveArguments
    /\ rpc = "call"

\* self.components.pop(key, None)
pop(reg, key) == SelectSeq(reg, LAMBDA entry : entry[1] /= key)

\* `component in self.components`
Registered_Name(reg, key) == \E i \in 1..Len(reg) : reg[i][1] = key

\* remove(name): the entry is popped, or KeyError is raised.
remove_name ==
    /\ rpc = "call"
    /\ removing.kind = "str"
    /\ IF Registered_Name(registry, removing.name)
       THEN /\ registry' = pop(registry, removing.name)
            /\ rpc' = "returned"
       ELSE /\ registry' = registry
            /\ rpc' = "KeyError"
    /\ UNCHANGED <<registry0, removing>>
    /\ UNCHANGED removeOthers

\* `for key, value in self.components` walks the keys of the dictionary and
\* unpacks each key, a string, into key and value: a key that does not have
\* two characters raises ValueError; the two characters of one that has are
\* neither a dict nor equal to the tuple of arguments, so nothing is popped.
remove_node ==
    /\ rpc = "call"
    /\ removing.kind = "node"
    /\ registry' = registry
    /\ rpc' = IF \E i \in 1..Len(registry) : NameLength[registry[i][1]] /= 2
              THEN "ValueError" ELSE "returned"
    /\ UNCHANGED <<registry0, removing>>
    /\ UNCHANGED removeOthers

NextRemove == remove_name \/ remove_node

SpecRemove == InitRemove /\ [][NextRemove]_vars

\* The entry remove is asked to remove: the one with the name given, or the
\* one whose component is the node given.
Matches(entry) ==
    IF removing.kind = "str" THEN entry[1] = removing.name
    ELSE entry[2].component = removing.node

\* C24: Compiler.remove. Given a name it removes exactly the entry with that
\* key; given a node it removes exactly the entry of the component that
\* matches the node; every other entry is left as it was.
C24_RemoveExactly ==
    rpc \notin {"idle", "call"} =>
        registry = SelectSeq(registry0, LAMBDA entry : ~Matches(entry))

(***************************************************************************)
(* generated (src/phml/utils/validate/validate.py)                         *)
(***************************************************************************)
\* The position of a node: the attribute is absent, is None, or is a start
\* point of the source.
Positions ==
    {[has |-> FALSE, line |-> 0, column |-> 0], [has |-> TRUE, line |-> 0, column |-> 0]}
    \cup {[has |-> TRUE, line |-> l, column |-> c] : l \in 1..MaxLine, c \in 1..MaxLine}

\* `node.position is not None`, for a node that has the attribute.
IsNone(position) == position.line = 0

NodeTypes == {"root", "element", "text", "comment", "doctype"}

InitGenerated ==
    /\ ManagerIdle
    /\ ScanIdle
    /\ CondIdle
    /\ LoopIdle
    /\ CompIdle
    /\ PipeIdle
    /\ CompileIdle
    /\ BindIdle
    /\ RemoveIdle
    /\ gnode \in [type : NodeTypes, position : Positions, copy : {FALSE}]
    /\ gres = <<>>

\* `return hasattr(node, "position") and node.position is not None`
generated(n) == n.position.has /\ ~IsNone(n.position)

\* The node is a copy made for an iteration of a loop: `child.position = None`
\* (execute_conditions), `child._position = None` (gen_new_children).
clear_position ==
    /\ gres = <<>>
    /\ gnode.position.has
    /\ ~IsNone(gnode.position)
    /\ gnode.type \in {"element", "text", "comment"}
    /\ gnode' = [gnode EXCEPT !.position = [has |-> TRUE, line |-> 0, column |-> 0],
                               !.copy = TRUE]
    /\ UNCHANGED gres
    /\ UNCHANGED generatedOthers

\* A call of generated(node).
call_generated ==
    /\ gres = <<>>
    /\ gres' = <<generated(gnode)>>
    /\ UNCHANGED gnode
    /\ UNCHANGED generatedOthers

NextGenerated == clear_position \/ call_generated

SpecGenerated == InitGenerated /\ [][NextGenerated]_vars

\* C26: generated(node) is true exactly when the node has no source position
\* (the position is absent or None), and false for a node that has one; it is
\* true for a copy whose position was cleared by loop expansion.
C26_GeneratedIffNoPosition ==
    gres /= <<>> =>
        (gres[1] <=> (~gnode.position.has \/ IsNone(gnode.position)))

(***************************************************************************)
(* HypertextMarkupCompiler._get_python_elements                            *)
(* (src/phml/compiler/__init__.py)                                         *)
(***************************************************************************)
\* What an element below the root can hold: up to two children, each a
\* python element or a plain element.
ScanKids == UNION {[1..n -> {"python", "p"}] : n \in 0..2}

\* The children of the root are drawn from these: a text node, a python
\* element, and an element with children.
ScanShapes ==
    {[tag |-> "", kids |-> <<>>], [tag |-> "python", kids |-> <<>>]}
    \cup {[tag |-> "div", kids |-> k] : k \in ScanKids}

\* The tree for a sequence of shapes; the node at place i has identity 10 * i
\* and its j-th child 10 * i + j.
BuildScan(shapes) ==
    [i \in 1..Len(shapes) |->
        [id |-> 10 * i, tag |-> shapes[i].tag,
         kids |-> [j \in 1..Len(shapes[i].kids) |->
                      [id |-> 10 * i + j, tag |-> shapes[i].kids[j], kids |-> <<>>]]]]

InitScan ==
    /\ ManagerIdle
    /\ CondIdle
    /\ LoopIdle
    /\ CompIdle
    /\ PipeIdle
    /\ CompileIdle
    /\ BindIdle
    /\ RemoveIdle
    /\ GeneratedIdle
    /\ \E n \in 0..MaxPython : \E shapes \in [1..n -> ScanShapes] : scan_tree = BuildScan(shapes)
    /\ scan_tree0 = scan_tree
    /\ scan_result = <<>>
    /\ scan_pc = "call"

\* `del node[idx]`
DelItem(list, idx) == SubSeq(list, 1, idx - 1) \o SubSeq(list, idx + 1, Len(list))

\* The place `for child in node` looks at next: the iteration walks the child
\* list itself, so the place moves on by one whether or not the child at the
\* current place was deleted.
next_index(i, deleted) == i + 1

RECURSIVE get_python_elements(_, _, _)
\* _get_python_elements(node), from place i of the children on, with the
\* result so far: the children left and the result.
get_python_elements(list, i, result) ==
    IF i > Len(list) THEN [children |-> list, result |-> result]
    ELSE LET child == list[i]
         IN  IF child.tag = "python"
             THEN get_python_elements(DelItem(list, i), next_index(i, TRUE),
                                      Append(result, child.id))
             ELSE IF child.tag /= ""
             THEN LET inner == get_python_elements(child.kids, 1, <<>>)
                  IN  get_python_elements([list EXCEPT ![i].kids = inner.children],
                                          next_index(i, FALSE), result \o inner.result)
             ELSE get_python_elements(list, next_index(i, FALSE), result)

\* A call of _get_python_elements on the root.
scan_python ==
    /\ scan_pc = "call"
    /\ LET out == get_python_elements(scan_tree, 1, <<>>)
       IN  /\ scan_tree' = out.children
           /\ scan_result' = out.result
    /\ scan_pc' = "returned"
    /\ UNCHANGED scan_tree0
    /\ UNCHANGED scanOthers

NextScan == scan_python

SpecScan == InitScan /\ [][NextScan]_vars

RECURSIVE PythonIn(_)
\* The python elements of a child list, in document order.
PythonIn(list) ==
    IF list = <<>> THEN <<>>
    ELSE (IF Head(list).tag = "python" THEN <<Head(list).id>> ELSE PythonIn(Head(list).kids))
            \o PythonIn(Tail(list))

\* C28: after _get_python_elements has run on a tree no python element is
\* left anywhere in it, and the list returned holds every python element of
\* the tree once, in document order.
C28_PythonCollected ==
    scan_pc = "returned" =>
        /\ PythonIn(scan_tree) = <<>>
        /\ scan_result = PythonIn(scan_tree0)

(***************************************************************************)
(* ComponentManager.validate and add (src/v2/components.py)                *)
(***************************************************************************)
\* What the `scripts` or `styles` entry of a record can hold: nothing (the
\* key is absent), a list of elements with the right tag, a list holding
\* something else, a tuple of elements with the right tag, a tuple holding
\* something else, or None.
ListEntries == {"absent", "list", "list_other", "tuple", "tuple_other", "None"}

\* What the `element` and `context` entries can hold.
ElementEntries == {"absent", "Element", "str"}
ContextEntries == {"absent", "dict", "str"}

\* DEFAULT_COMPONENT
DEFAULT_COMPONENT ==
    [context |-> "dict", scripts |-> "list", styles |-> "list", element |-> "Element"]

InitManager ==
    /\ CondIdle
    /\ LoopIdle
    /\ CompIdle
    /\ PipeIdle
    /\ CompileIdle
    /\ BindIdle
    /\ RemoveIdle
    /\ GeneratedIdle
    /\ ScanIdle
    /\ manager \in {<<>>, [Old |-> DEFAULT_COMPONENT]}
    /\ manager0 = manager
    /\ data \in [context : ContextEntries, scripts : ListEntries, styles : ListEntries,
                 element : ElementEntries]
    /\ mpc = "call"

\* isinstance(entry, list)
IsList(entry) == entry \in {"list", "list_other"}

\* all(isinstance(x, Element) and x.tag == tag for x in entry); None is not
\* iterable.
all(entry) ==
    CASE entry \in {"list", "tuple"} -> "True"
      [] entry \in {"list_other", "tuple_other"} -> "False"
      [] OTHER -> "TypeError"

\* `key in data and not isinstance(data[key], list) and all(...)`: "raise"
\* when the condition is true, "pass" when it is false, "TypeError" when its
\* evaluation fails.
list_check(entry) ==
    IF entry = "absent" \/ IsList(entry) THEN "pass"
    ELSE IF all(entry) = "TypeError" THEN "TypeError"
    ELSE IF all(entry) = "True" THEN "raise"
    ELSE "pass"

\* validate(data): "returned", or the exception raised.
validate(d) ==
    IF d.context \notin {"absent", "dict"} THEN "ValueError"
    ELSE IF list_check(d.scripts) = "TypeError" THEN "TypeError"
    ELSE IF list_check(d.scripts) = "raise" THEN "ValueError"
    ELSE IF list_check(d.styles) = "TypeError" THEN "TypeError"
    ELSE IF list_check(d.styles) = "raise" THEN "ValueError"
    ELSE IF d.element /= "Element" THEN "ValueError"
    ELSE "returned"

\* content = {**DEFAULT_COMPONENT}; content.update(data[1])
Content(d) ==
    [k \in DOMAIN d |-> IF d[k] = "absent" THEN DEFAULT_COMPONENT[k] ELSE d[k]]

\* A call of validate(data).
call_validate ==
    /\ mpc = "call"
    /\ mpc' = validate(data)
    /\ UNCHANGED <<manager, manager0, data>>
    /\ UNCHANGED managerOthers

\* A call of add(data=("New", data)).
add ==
    /\ mpc = "call"
    /\ mpc' = validate(Content(data))
    /\ manager' = IF mpc' = "returned"
                  THEN ("New" :> Content(data)) @@ manager
                  ELSE manager
    /\ UNCHANGED <<manager0, data>>
    /\ UNCHANGED managerOthers

NextManager == call_validate \/ add

SpecManager == InitManager /\ [][NextManager]_vars

\* The record has a `scripts` or `styles` entry that is not a list made only
\* of elements with the right tag, or its `element` entry is missing or is not
\* an element.
Invalid(d) ==
    \/ d.scripts \notin {"absent", "list"}
    \/ d.styles \notin {"absent", "list"}
    \/ d.element /= "Element"

\* C30: validate raises ValueError for every such record, and add, which
\* validates before it stores, does not store it: the registry is unchanged.
C30_InvalidRejected ==
    (mpc \notin {"idle", "call"} /\ Invalid(data)) =>
        /\ mpc = "ValueError"
        /\ manager = manager0

====
